---- MODULE Spec2Model ----
(***************************************************************************)
(* A state-machine model of starwars_game/main.py: the terminal arcade     *)
(* shooter's entities, its per-tick simulation (StarWarsGame.update), its  *)
(* input handling, its reset and its top-level title/instructions/game     *)
(* flow.                                                                   *)
(*                                                                         *)
(* Numbers.  The program computes with Python floats.  The model uses      *)
(* exact fixed point:                                                      *)
(*   - a position or a speed is an integer count of 1/Unit cells;          *)
(*   - a time is an integer count of 1/TimeRate seconds;                   *)
(*   - a difficulty is an integer count of 1/DUnit.                        *)
(* Python's int() on a float truncates toward zero: Trunc.                 *)
(* random.* and time.time() are inputs chosen by the actions.              *)
(***************************************************************************)
EXTENDS Integers, Sequences, FiniteSets, TLC

VARIABLES
    pc,     \* where main() is: "title", "instructions", "playing", "exit"
    game,   \* the StarWarsGame object (NoGame before it is constructed)
    now,    \* the clock: the last value time.time() gave the game loop
    log,    \* what the last loop iteration did, step by step (history)
    ticks,  \* number of loop iterations run with free inputs
    script, \* the inputs fixed for the next iterations of the session
    pressed,  \* the last key getch() returned to the program (history)
    call    \* a function called on its own: its name, arguments, result

vars == <<pc, game, now, log, ticks, script, pressed, call>>

----------------------------------------------------------------------------
(* Units of the fixed-point representation.                                *)

\* position units per cell
Unit == 100
\* time units per second: frame_time = 1/15 s is exactly 2 units
TimeRate == 30
\* difficulty units: a difficulty d stands for d / DUnit
DUnit == 1000

Min(a, b) == IF a < b THEN a ELSE b
Max(a, b) == IF a > b THEN a ELSE b
Abs(a) == IF a < 0 THEN -a ELSE a

\* Python int(v) of a float v held as v positional units: toward zero.
Trunc(v) == IF v >= 0 THEN v \div Unit ELSE -((-v) \div Unit)

\* int(v) of a float held in difficulty units
TruncD(v) == IF v >= 0 THEN v \div DUnit ELSE -((-v) \div DUnit)

\* The elements of a sequence, and a sequence without the element with id i
\* (list.remove(obj): Python objects without __eq__ compare by identity).
Ids(s) == {s[i].id : i \in 1..Len(s)}
RECURSIVE RemoveId(_, _)
RemoveId(s, i) ==
    IF s = <<>> THEN <<>>
    ELSE IF Head(s).id = i THEN Tail(s)
    ELSE <<Head(s)>> \o RemoveId(Tail(s), i)

----------------------------------------------------------------------------
(* class GameObject                                                        *)

\* GameObject.__init__(x, y, char, direction): x, y are given as whole cells
GameObject(id, x, y, char, direction) ==
    [id |-> id, x |-> x, y |-> y,
     float_x |-> x * Unit, float_y |-> y * Unit,
     char |-> char, direction |-> direction,
     width |-> Len(char), height |-> 1]

\* GameObject.move(dx, dy): dx, dy in position units
move(o, dx, dy) ==
    [o EXCEPT !.float_x = o.float_x + dx,
              !.float_y = o.float_y + dy,
              !.x = Trunc(o.float_x + dx),
              !.y = Trunc(o.float_y + dy)]

\* collides_with, with other's width used for both spans
collides_with_one_width(self, other, margin) ==
    LET horizontal_overlap == /\ self.x < other.x + other.width + margin
                              /\ other.x < self.x + other.width + margin
        vertical_overlap == Abs(self.y - other.y) <= margin
    IN  horizontal_overlap /\ vertical_overlap

\* GameObject.collides_with(other, margin)
collides_with(self, other, margin) ==
    LET horizontal_overlap == /\ self.x < other.x + other.width + margin
                              /\ other.x < self.x + self.width + margin
        vertical_overlap == Abs(self.y - other.y) <= margin
    IN  horizontal_overlap /\ vertical_overlap

----------------------------------------------------------------------------
(* class Projectile.  The rapid glyphs are single non-ASCII characters in  *)
(* the source; "R" stands for either of them (only the length is used).    *)

ProjectileChar(direction, is_rapid) ==
    IF is_rapid THEN "R"
    ELSE IF direction > 0 THEN "->" ELSE "<"

Projectile(id, x, y, direction, is_rapid) ==
    GameObject(id, x, y, ProjectileChar(direction, is_rapid), direction) @@
    [speed |-> IF is_rapid THEN (3 * Unit * direction) \div 2
                           ELSE Unit * direction,
     is_rapid |-> is_rapid]

ProjectileUpdate(p) == move(p, p.speed, 0)

----------------------------------------------------------------------------
(* class PowerUp.  type_id: 0 shield, 1 fast fire, 2 invincibility; every  *)
(* glyph is one character long ("S", "F", "I" are the source's fallbacks). *)

PowerUpChar(type_id) ==
    CASE type_id = 0 -> "S"
      [] type_id = 1 -> "F"
      [] type_id = 2 -> "I"
      [] type_id = 3 -> "L"
      [] OTHER -> "P"

PowerUp(id, x, y, type_id) ==
    GameObject(id, x, y, PowerUpChar(type_id), 1) @@
    [type_id |-> type_id, speed |-> -Unit]

PowerUpUpdate(p) == move(p, p.speed, 0)

----------------------------------------------------------------------------
(* class Player                                                            *)

\* Player.SHIP_LEVELS
SHIP_LEVELS(level) ==
    CASE level = 0 -> "{-+==+-}"
      [] level = 1 -> "<-=:::=->"
      [] level = 2 -> "{+-=^=-+}>"
      [] level = 3 -> ">[=X=]>"

\* Player.power_up_duration = 4.0, normal_cooldown = 0.3, rapid_cooldown = 0.1,
\* upgrade_display_duration = 3.0 (seconds), in time units
power_up_duration == 4 * TimeRate
normal_cooldown == (3 * TimeRate) \div 10
rapid_cooldown == (1 * TimeRate) \div 10
upgrade_display_duration == 3 * TimeRate

\* Player.__init__(x, y); the player object's identity is 0
Player(x, y) ==
    GameObject(0, x, y, SHIP_LEVELS(0), 1) @@
    [level |-> 0, speed |-> Unit, score |-> 0, lives |-> 1,
     projectiles |-> <<>>, last_shot_time |-> 0,
     has_shield |-> FALSE, rapid_fire |-> FALSE, invincible |-> FALSE,
     shield_active_until |-> 0, rapid_fire_until |-> 0,
     invincible_until |-> 0,
     upgrade_message |-> "", upgrade_time |-> 0]

\* shoot, with the two extra shots of level 2 fired in every row
shoot_ungated(p, current_time, lines, nid) ==
    LET cooldown == IF p.rapid_fire THEN rapid_cooldown ELSE normal_cooldown
        x == p.x
        y == p.y
        forward == <<Projectile(nid, x + p.width, y, 1, p.rapid_fire)>>
        up == IF p.level >= 2
              THEN <<Projectile(nid + 1, x + p.width, y - 1, 1, p.rapid_fire)>>
              ELSE <<>>
        down == IF p.level >= 2
                THEN <<Projectile(nid + 2, x + p.width, y + 1, 1, p.rapid_fire)>>
                ELSE <<>>
    IN  IF current_time - p.last_shot_time > cooldown
        THEN [p EXCEPT !.projectiles = p.projectiles \o forward \o up \o down,
                       !.last_shot_time = current_time]
        ELSE p

\* shoot, with the rapid-fire cooldown whatever the rapid_fire flag
shoot_rapid_cooldown(p, current_time, lines, nid) ==
    LET cooldown == rapid_cooldown
        x == p.x
        y == p.y
        forward == <<Projectile(nid, x + p.width, y, 1, p.rapid_fire)>>
        up == IF p.level >= 2 /\ y > 1
              THEN <<Projectile(nid + 1, x + p.width, y - 1, 1, p.rapid_fire)>>
              ELSE <<>>
        down == IF p.level >= 2 /\ y < lines - 2
                THEN <<Projectile(nid + 2, x + p.width, y + 1, 1, p.rapid_fire)>>
                ELSE <<>>
    IN  IF current_time - p.last_shot_time > cooldown
        THEN [p EXCEPT !.projectiles = p.projectiles \o forward \o up \o down,
                       !.last_shot_time = current_time]
        ELSE p

\* Player.shoot(current_time).  lines is curses.LINES; nid is the identity
\* of the first object created.  The new projectiles are appended in the
\* order forward, up, down.
shoot(p, current_time, lines, nid) ==
    LET cooldown == IF p.rapid_fire THEN rapid_cooldown ELSE normal_cooldown
        x == p.x
        y == p.y
        forward == <<Projectile(nid, x + p.width, y, 1, p.rapid_fire)>>
        up == IF p.level >= 2 /\ y > 1
              THEN <<Projectile(nid + 1, x + p.width, y - 1, 1, p.rapid_fire)>>
              ELSE <<>>
        down == IF p.level >= 2 /\ y < lines - 2
                THEN <<Projectile(nid + 2, x + p.width, y + 1, 1, p.rapid_fire)>>
                ELSE <<>>
    IN  IF current_time - p.last_shot_time > cooldown
        THEN [p EXCEPT !.projectiles = p.projectiles \o forward \o up \o down,
                       !.last_shot_time = current_time]
        ELSE p

\* Player.update_projectiles(max_x): every projectile of the snapshot is
\* advanced; the ones that left the columns 0..max_x are removed.
RECURSIVE update_projectiles_loop(_, _)
update_projectiles_loop(ps, max_x) ==
    IF ps = <<>> THEN <<>>
    ELSE LET q == ProjectileUpdate(Head(ps))
             rest == update_projectiles_loop(Tail(ps), max_x)
         IN  IF q.x < 0 \/ q.x > max_x THEN rest ELSE <<q>> \o rest

update_projectiles(p, max_x) ==
    [p EXCEPT !.projectiles = update_projectiles_loop(p.projectiles, max_x)]

\* update_power_ups, with the three flags cleared when one has expired
update_power_ups_together(p, current_time) ==
    IF \/ (p.has_shield /\ current_time > p.shield_active_until)
       \/ (p.rapid_fire /\ current_time > p.rapid_fire_until)
       \/ (p.invincible /\ current_time > p.invincible_until)
    THEN [p EXCEPT !.has_shield = FALSE, !.rapid_fire = FALSE,
                   !.invincible = FALSE]
    ELSE p

\* Player.update_power_ups(current_time)
update_power_ups(p, current_time) ==
    [p EXCEPT
       !.has_shield = IF current_time > p.shield_active_until THEN FALSE ELSE @,
       !.rapid_fire = IF current_time > p.rapid_fire_until THEN FALSE ELSE @,
       !.invincible = IF current_time > p.invincible_until THEN FALSE ELSE @]

UpgradeMessage(level) ==
    CASE level = 1 -> "SHIP UPGRADED! LEVEL 2"
      [] level = 2 -> "SHIP UPGRADED! LEVEL 3"
      [] level = 3 -> "SHIP UPGRADED! LEVEL 4"

\* check_upgrade, with the last branch lacking its "level < 1" guard
check_upgrade_unguarded(p, current_time) ==
    IF p.score >= 300 /\ p.level < 3
    THEN [p EXCEPT !.level = 3, !.char = SHIP_LEVELS(3),
                   !.width = Len(SHIP_LEVELS(3)),
                   !.upgrade_message = UpgradeMessage(3),
                   !.upgrade_time = current_time]
    ELSE IF p.score >= 200 /\ p.level < 2
    THEN [p EXCEPT !.level = 2, !.char = SHIP_LEVELS(2),
                   !.width = Len(SHIP_LEVELS(2)),
                   !.upgrade_message = UpgradeMessage(2),
                   !.upgrade_time = current_time]
    ELSE IF p.score >= 100
    THEN [p EXCEPT !.level = 1, !.char = SHIP_LEVELS(1),
                   !.width = Len(SHIP_LEVELS(1)),
                   !.upgrade_message = UpgradeMessage(1),
                   !.upgrade_time = current_time]
    ELSE p

\* Player.check_upgrade(current_time)
check_upgrade(p, current_time) ==
    LET old_level == p.level
        level == IF p.score >= 300 /\ p.level < 3 THEN 3
                 ELSE IF p.score >= 200 /\ p.level < 2 THEN 2
                 ELSE IF p.score >= 100 /\ p.level < 1 THEN 1
                 ELSE p.level
    IN  IF level > old_level
        THEN [p EXCEPT !.level = level,
                       !.char = SHIP_LEVELS(level),
                       !.width = Len(SHIP_LEVELS(level)),
                       !.upgrade_message = UpgradeMessage(level),
                       !.upgrade_time = current_time]
        ELSE p

----------------------------------------------------------------------------
(* class EnemyType                                                         *)

BASIC == 0
ZIGZAG == 1
HUNTER == 2

get_appearance(enemy_type) ==
    CASE enemy_type = BASIC -> "<<=+=>>"
      [] enemy_type = ZIGZAG -> "-=+::+=-"
      [] enemy_type = HUNTER -> "<+==+<"
      [] OTHER -> "<==<"

\* speeds 1.0, 1.2, 0.9 cells per update
get_base_speed(enemy_type) ==
    CASE enemy_type = BASIC -> Unit
      [] enemy_type = ZIGZAG -> (12 * Unit) \div 10
      [] enemy_type = HUNTER -> (9 * Unit) \div 10
      [] OTHER -> Unit

\* get_max_speed with every speed doubled
get_max_speed_doubled(enemy_type) ==
    CASE enemy_type = BASIC -> 6 * Unit
      [] enemy_type = ZIGZAG -> 7 * Unit
      [] enemy_type = HUNTER -> (64 * Unit) \div 10
      [] OTHER -> 6 * Unit

\* speeds 3.0, 3.5, 3.2 cells per update
get_max_speed(enemy_type) ==
    CASE enemy_type = BASIC -> 3 * Unit
      [] enemy_type = ZIGZAG -> (35 * Unit) \div 10
      [] enemy_type = HUNTER -> (32 * Unit) \div 10
      [] OTHER -> 3 * Unit

get_points(enemy_type) ==
    CASE enemy_type = BASIC -> 10
      [] enemy_type = ZIGZAG -> 15
      [] enemy_type = HUNTER -> 20
      [] OTHER -> 10

----------------------------------------------------------------------------
(* class Enemy                                                             *)

\* target_y = None
NoTarget == -1

\* Enemy.__init__(x, y, enemy_type, difficulty_multiplier)
scaled_speed(base_speed, max_speed, difficulty_multiplier) ==
    base_speed + ((max_speed - base_speed) * difficulty_multiplier) \div DUnit

Enemy(id, x, y, enemy_type, difficulty_multiplier) ==
    GameObject(id, x, y, get_appearance(enemy_type), -1) @@
    [enemy_type |-> enemy_type,
     base_speed |-> scaled_speed(get_base_speed(enemy_type),
                                 get_max_speed(enemy_type),
                                 difficulty_multiplier),
     speed |-> -scaled_speed(get_base_speed(enemy_type),
                             get_max_speed(enemy_type),
                             difficulty_multiplier),
     difficulty_multiplier |-> difficulty_multiplier,
     zigzag_counter |-> 0, zigzag_interval |-> 5,
     zigzag_direction |-> 1, zigzag_accumulator |-> 0,
     hunt_interval |-> 10, hunt_counter |-> 0,
     target_y |-> NoTarget, hunter_accumulator |-> 0]

\* the values random.randint(min_interval, max_interval) can return when a
\* zigzag enemy flips, and random.randint(3, 5) when a hunter re-targets
ZigzagIntervals(d) ==
    Max(5 - TruncD(3 * d), 2) .. Max(10 - TruncD(5 * d), 5)
HuntIntervals == 3..5

\* whether Enemy.update draws a random interval for e in its next update
ZigzagFlips(e) ==
    e.enemy_type = ZIGZAG /\ e.zigzag_counter + 1 >= e.zigzag_interval
HunterRetargets(e) ==
    /\ e.enemy_type = HUNTER
    /\ (e.hunt_counter + 1 >= e.hunt_interval \/ e.target_y = NoTarget)

\* lines 298-300: the vertical speed of a zigzag enemy, 0.5 to 2.0
zigzag_speed(e) ==
    scaled_speed(Unit \div 2, 2 * Unit, e.difficulty_multiplier)

\* the zigzag branch of Enemy.update (lines 285-301); draw is the random
\* interval.  The drift goes to zigzag_accumulator only: the branch never
\* calls move.
zigzag_update(e, draw) ==
    IF e.zigzag_counter + 1 >= e.zigzag_interval
    THEN [e EXCEPT !.zigzag_counter = 0,
                   !.zigzag_direction = -e.zigzag_direction,
                   !.zigzag_interval = draw,
                   !.zigzag_accumulator =
                        @ + zigzag_speed(e) * (-e.zigzag_direction)]
    ELSE [e EXCEPT !.zigzag_counter = @ + 1,
                   !.zigzag_accumulator =
                        @ + zigzag_speed(e) * e.zigzag_direction]

\* lines 319-321: the tracking speed of a hunter, 0.8 to 2.5
tracking_speed(e) ==
    scaled_speed((8 * Unit) \div 10, (25 * Unit) \div 10,
                 e.difficulty_multiplier)

\* lines 307-312: the periodic re-targeting of a hunter
hunter_retarget(e, player_y, draw) ==
    IF e.hunt_counter + 1 >= e.hunt_interval \/ e.target_y = NoTarget
    THEN [e EXCEPT !.hunt_counter = 0,
                   !.hunt_interval = draw,
                   !.target_y = player_y]
    ELSE [e EXCEPT !.hunt_counter = @ + 1]

\* lines 323-330: acc is the accumulator after adding dy; whole cells of
\* it are moved and subtracted
hunter_commit(e, acc) ==
    IF Trunc(acc) # 0
    THEN [move(e, 0, Trunc(acc) * Unit)
            EXCEPT !.hunter_accumulator = acc - Trunc(acc) * Unit]
    ELSE [e EXCEPT !.hunter_accumulator = acc]

\* lines 315-330: the move toward target_y
hunter_track(e) ==
    IF 10 * Abs(e.float_y - e.target_y * Unit) > 2 * Unit
    THEN hunter_commit(e, e.hunter_accumulator +
                          (IF e.float_y < e.target_y * Unit
                           THEN tracking_speed(e) ELSE -tracking_speed(e)))
    ELSE e

\* the hunter branch of Enemy.update (lines 302-330)
hunter_update(e, player_y, draw) ==
    hunter_track(hunter_retarget(e, player_y, draw))

\* Enemy.update(player_position); zdraw, hdraw are the random intervals
EnemyUpdate(e, player_y, zdraw, hdraw) ==
    IF e.enemy_type = ZIGZAG
    THEN zigzag_update(move(e, e.speed, 0), zdraw)
    ELSE IF e.enemy_type = HUNTER
    THEN hunter_update(move(e, e.speed, 0), player_y, hdraw)
    ELSE move(e, e.speed, 0)

----------------------------------------------------------------------------
(* class StarWarsGame: difficulty, construction, spawning                  *)

\* math.log(v) / math.log(10) for 1 <= v <= 10, v and the result in
\* difficulty units: the binary digits of the logarithm by repeated squaring
RECURSIVE Log10Digits(_, _, _)
Log10Digits(v, weight, n) ==
    IF n = 0 THEN 0
    ELSE IF (v * v) \div DUnit >= 10 * DUnit
    THEN weight + Log10Digits(((v * v) \div DUnit) \div 10, weight \div 2, n - 1)
    ELSE Log10Digits((v * v) \div DUnit, weight \div 2, n - 1)

RECURSIVE Log10(_)
Log10(v) ==
    IF v >= 10 * DUnit THEN DUnit + Log10(v \div 10)
    ELSE (Log10Digits(v, 512, 10) * DUnit) \div 1024

\* lines 346-351
time_factor(time_played) ==
    IF time_played < 60 * TimeRate
    THEN Min((time_played * DUnit) \div (300 * TimeRate), DUnit \div 5)
    ELSE DUnit \div 5 +
         Min(((time_played - 60 * TimeRate) * DUnit) \div (180 * TimeRate),
             (4 * DUnit) \div 10)

\* lines 355-358
score_factor(score) ==
    IF score < 100
    THEN (score * DUnit) \div 500
    ELSE DUnit \div 5 + Min(((score - 100) * DUnit) \div 500, DUnit \div 5)

\* lines 364-365: the damping of the first 30 seconds
early_damping(difficulty, time_played) ==
    IF time_played < 30 * TimeRate
    THEN (difficulty * time_played * 7) \div (30 * TimeRate * 10)
    ELSE difficulty

\* lines 370-371
log_smoothing(difficulty) ==
    IF difficulty > 0 THEN Log10(DUnit + 9 * difficulty) ELSE difficulty

\* difficulty_of, with neither the score factor nor the sum capped
difficulty_of_uncapped(time_played, score) ==
    log_smoothing(
        early_damping(time_factor(time_played) + (score * DUnit) \div 500,
                      time_played))

\* the formula of get_difficulty_multiplier on time_played (time units) and
\* score, in difficulty units
difficulty_of(time_played, score) ==
    log_smoothing(
        early_damping(Min(time_factor(time_played) + score_factor(score),
                          DUnit),
                      time_played))

\* StarWarsGame.get_difficulty_multiplier(current_time)
get_difficulty_multiplier(g, current_time) ==
    difficulty_of(current_time - g.start_time, g.player.score)

\* frame_time = 1/15 s
frame_time == TimeRate \div 15

\* initial_enemy_spawn_rate = 3.0, min_enemy_spawn_rate = 0.3,
\* initial_power_up_spawn_rate = 8.0, max_power_up_spawn_rate = 25.0 seconds:
\* held in tenths of a second
initial_enemy_spawn_rate == 30
min_enemy_spawn_rate == 3
initial_power_up_spawn_rate == 80
max_power_up_spawn_rate == 250
zigzag_enemy_score_threshold == 50
hunter_enemy_score_threshold == 120

\* StarWarsGame.init_game() on a screen of h rows and w columns, when
\* time.time() gives t.  The background stars are decoration and are left
\* out; next_id is the identity the next created object gets; lines is
\* curses.LINES.
init_game(h, w, t) ==
    [height |-> h, width |-> w, lines |-> h,
     running |-> TRUE, game_over |-> FALSE,
     player |-> Player(5, h \div 2),
     enemies |-> <<>>, last_enemy_spawn |-> 0,
     power_ups |-> <<>>, last_power_up_spawn |-> 0,
     start_time |-> t, next_id |-> 1]

\* lines 459-476: score >= threshold * (1.0 - difficulty * 0.3), and the
\* outcomes hunter_roll, zigzag_roll of random.random() < chance (each
\* chance lies strictly between 0 and 1, so both outcomes are possible)
choose_enemy_type(score, difficulty, hunter_roll, zigzag_roll) ==
    IF /\ score * 10 * DUnit >=
            hunter_enemy_score_threshold * (10 * DUnit - 3 * difficulty)
       /\ hunter_roll
    THEN HUNTER
    ELSE IF /\ score * 10 * DUnit >=
                 zigzag_enemy_score_threshold * (10 * DUnit - 3 * difficulty)
            /\ zigzag_roll
    THEN ZIGZAG
    ELSE BASIC

\* spawn_enemy_with, with the cap compared by <= : a sixteenth enemy
spawn_enemy_over_cap(g, y, hunter_roll, zigzag_roll, difficulty) ==
    IF Len(g.enemies) <= 15
    THEN [g EXCEPT
            !.enemies = Append(@,
                Enemy(g.next_id, g.width - 10, y,
                      choose_enemy_type(g.player.score, difficulty,
                                        hunter_roll, zigzag_roll),
                      difficulty)),
            !.next_id = @ + 1]
    ELSE g

\* lines 449-479 once the difficulty is known
spawn_enemy_with(g, y, hunter_roll, zigzag_roll, difficulty) ==
    IF Len(g.enemies) < 15
    THEN [g EXCEPT
            !.enemies = Append(@,
                Enemy(g.next_id, g.width - 10, y,
                      choose_enemy_type(g.player.score, difficulty,
                                        hunter_roll, zigzag_roll),
                      difficulty)),
            !.next_id = @ + 1]
    ELSE g

\* StarWarsGame.spawn_enemy(); t is what its own time.time() gives, y is
\* random.randint(2, height - 3)
spawn_enemy(g, t, y, hunter_roll, zigzag_roll) ==
    spawn_enemy_with(g, y, hunter_roll, zigzag_roll,
                     get_difficulty_multiplier(g, t))

\* StarWarsGame.spawn_power_up(); y is random.randint(2, height - 3) and
\* power_up_type is random.randint(0, 2)
spawn_power_up(g, y, power_up_type) ==
    IF Len(g.power_ups) < 2
    THEN [g EXCEPT
            !.power_ups = Append(@, PowerUp(g.next_id, g.width - 5, y,
                                            power_up_type)),
            !.next_id = @ + 1]
    ELSE g

\* the spawn conditions of update(): current_time - last_spawn > rate, the
\* rate interpolated by the difficulty (both sides times 10 * DUnit /
\* TimeRate to stay in integers)
enemy_spawn_due(g, current_time) ==
    (current_time - g.last_enemy_spawn) * 10 * DUnit >
    TimeRate * (initial_enemy_spawn_rate * DUnit -
                (initial_enemy_spawn_rate - min_enemy_spawn_rate)
                    * get_difficulty_multiplier(g, current_time))

power_up_spawn_due(g, current_time) ==
    (current_time - g.last_power_up_spawn) * 10 * DUnit >
    TimeRate * (initial_power_up_spawn_rate * DUnit +
                (max_power_up_spawn_rate - initial_power_up_spawn_rate)
                    * get_difficulty_multiplier(g, current_time))

----------------------------------------------------------------------------
(* StarWarsGame.reset_game, handle_input                                   *)

\* StarWarsGame.reset_game(); t is what its time.time() gives.  getmaxyx()
\* gives the size the loop has just read.
\* reset_game, with the session clock left running
reset_game_keeps_clock(g, t) ==
    [g EXCEPT !.game_over = FALSE,
              !.player = Player(5, g.height \div 2),
              !.enemies = <<>>,
              !.power_ups = <<>>,
              !.last_enemy_spawn = t,
              !.last_power_up_spawn = t]

reset_game(g, t) ==
    [g EXCEPT !.game_over = FALSE,
              !.player = Player(5, g.height \div 2),
              !.enemies = <<>>,
              !.power_ups = <<>>,
              !.last_enemy_spawn = t,
              !.last_power_up_spawn = t,
              !.start_time = t]

Keys == {"none", "up", "down", "left", "right", "space", "q", "esc", "r",
         "enter", "other"}

\* lines 523-533 of handle_input: only the integer position is clamped
clamp_player(g) ==
    LET p == g.player
        cx == IF p.x < 0 THEN 0
              ELSE IF p.x + p.width >= g.width THEN g.width - p.width - 1
              ELSE p.x
        cy == IF p.y < 0 THEN 0
              ELSE IF p.y + p.height >= g.height THEN g.height - p.height - 1
              ELSE p.y
    IN  [g EXCEPT !.player.x = cx, !.player.y = cy]

\* the not-game-over branch of handle_input (lines 509-521)
gameplay_key(g, key, current_time) ==
    LET p == g.player
    IN  CASE key = "up" -> [g EXCEPT !.player = move(p, 0, -p.speed)]
          [] key = "down" -> [g EXCEPT !.player = move(p, 0, p.speed)]
          [] key = "left" -> [g EXCEPT !.player = move(p, -p.speed, 0)]
          [] key = "right" -> [g EXCEPT !.player = move(p, p.speed, 0)]
          [] key = "space" ->
                [g EXCEPT !.player = shoot(p, current_time, g.lines, g.next_id),
                          !.next_id = @ + 3]
          [] key \in {"q", "esc"} -> [g EXCEPT !.running = FALSE]
          [] OTHER -> g

\* StarWarsGame.handle_input(current_time); key is what getch() gives,
\* reset_time what time.time() gives inside reset_game
handle_input(g, key, current_time, reset_time) ==
    IF g.game_over
    THEN IF key = "r" THEN reset_game(g, reset_time)
         ELSE IF key \in {"q", "esc"} THEN [g EXCEPT !.running = FALSE]
         ELSE clamp_player(g)
    ELSE clamp_player(gameplay_key(g, key, current_time))

----------------------------------------------------------------------------
(* StarWarsGame.render: only whether a draw raises curses.error matters    *)
(* to the loop.  stdscr.addstr(y, x, text) raises when (y, x) is outside   *)
(* the window or when the text runs past the window's last cell.           *)

addstr_fails(g, y, x, len) ==
    \/ y < 0 \/ y >= g.height
    \/ x < 0 \/ x >= g.width
    \/ y * g.width + x + len >= g.height * g.width

RECURSIVE Digits(_)
Digits(n) == IF n < 10 THEN 1 ELSE 1 + Digits(n \div 10)

\* the guarded draws of projectiles, enemies and power-ups
guarded_draw_fails(g, objs) ==
    \E i \in 1..Len(objs) :
        /\ 0 <= objs[i].x /\ objs[i].x < g.width
        /\ 0 <= objs[i].y /\ objs[i].y < g.height
        /\ addstr_fails(g, objs[i].y, objs[i].x, objs[i].width)

\* StarWarsGame.render(): TRUE when some addstr raises; current_time is
\* what render's time.time() gives
render_fails(g, current_time) ==
    LET p == g.player
        score_len == 7 + Digits(p.score)
        shield_row == IF current_time < p.shield_active_until THEN 1 ELSE 0
        rapid_row == IF current_time < p.rapid_fire_until THEN 1 ELSE 0
        inv_row == IF current_time < p.invincible_until THEN 1 ELSE 0
        status_y == 1 + shield_row + rapid_row + inv_row
        msg_len == Len(p.upgrade_message)
        next_upgrade == CASE p.level = 0 -> 100 [] p.level = 1 -> 200
                          [] OTHER -> 300
        over_len == 25 + Digits(p.score)
    IN  \/ addstr_fails(g, 0, 0, score_len)
        \/ addstr_fails(g, p.y, p.x, p.width)
        \/ guarded_draw_fails(g, p.projectiles)
        \/ guarded_draw_fails(g, g.enemies)
        \/ guarded_draw_fails(g, g.power_ups)
        \/ (p.has_shield /\ addstr_fails(g, p.y, p.x - 1, p.width))
        \/ (shield_row = 1 /\ addstr_fails(g, 1, 0, 10))
        \/ (rapid_row = 1 /\ addstr_fails(g, 1 + shield_row, 0, 14))
        \/ (inv_row = 1 /\ addstr_fails(g, 1 + shield_row + rapid_row, 0, 14))
        \/ (/\ msg_len > 0
            /\ current_time - p.upgrade_time < upgrade_display_duration
            /\ addstr_fails(g, g.height - 4,
                            g.width \div 2 - msg_len \div 2, msg_len))
        \/ addstr_fails(g, status_y, 0, 13)
        \/ (/\ p.level < 3 /\ next_upgrade - p.score > 0
            /\ addstr_fails(g, status_y + 1, 0,
                            24 + Digits(next_upgrade - p.score)))
        \/ (/\ g.game_over
            /\ \/ addstr_fails(g, g.height \div 2 - 1,
                               g.width \div 2 - over_len \div 2, over_len)
               \/ addstr_fails(g, g.height \div 2 + 1, g.width \div 2 - 18, 36))

----------------------------------------------------------------------------
(* StarWarsGame.update                                                     *)

\* the list s with the object of obj's identity replaced by obj (the code
\* mutates the object in place)
ReplaceId(s, obj) ==
    [i \in 1..Len(s) |-> IF s[i].id = obj.id THEN obj ELSE s[i]]

IdSeq(s) == [i \in 1..Len(s) |-> s[i].id]

\* lines 552-560 after the enemy spawn check: the power-up spawn check
power_up_spawn_check(g, current_time, rnd) ==
    IF power_up_spawn_due(g, current_time)
    THEN [spawn_power_up(g, rnd.py, rnd.ptype)
            EXCEPT !.last_power_up_spawn = current_time]
    ELSE g

\* lines 552-555: the enemy spawn check
enemy_spawn_check(g, current_time, rnd) ==
    IF enemy_spawn_due(g, current_time)
    THEN [spawn_enemy(g, rnd.spawn_time, rnd.ey,
                      rnd.hunter_roll, rnd.zigzag_roll)
            EXCEPT !.last_enemy_spawn = current_time]
    ELSE g

\* lines 537-560: expiry of the power-up flags, then the two spawn checks.
\* rnd holds what time.time() and random give: spawn_time, ey, hunter_roll,
\* zigzag_roll, py, ptype.
spawn_phase(g, current_time, rnd) ==
    power_up_spawn_check(
        enemy_spawn_check(
            [g EXCEPT !.player = update_power_ups(@, current_time)],
            current_time, rnd),
        current_time, rnd)

\* apply_power_up, with the duration added to an expiry still to come
apply_power_up_extends(p, pu, current_time) ==
    CASE pu.type_id = 0 ->
            [p EXCEPT !.has_shield = TRUE,
                      !.shield_active_until =
                          Max(@, current_time) + power_up_duration,
                      !.upgrade_message = "SHIELD ACTIVATED!",
                      !.upgrade_time = current_time]
      [] pu.type_id = 1 ->
            [p EXCEPT !.rapid_fire = TRUE,
                      !.rapid_fire_until =
                          Max(@, current_time) + power_up_duration,
                      !.upgrade_message = "RAPID FIRE ACTIVATED!",
                      !.upgrade_time = current_time]
      [] pu.type_id = 2 ->
            [p EXCEPT !.invincible = TRUE,
                      !.invincible_until =
                          Max(@, current_time) + power_up_duration,
                      !.upgrade_message = "INVINCIBILITY ACTIVATED!",
                      !.upgrade_time = current_time]
      [] OTHER ->
            [p EXCEPT !.upgrade_message = "POWER-UP COLLECTED!",
                      !.upgrade_time = current_time]

\* lines 594-612: the flag, the expiry and the message of power-up pu
apply_power_up(p, pu, current_time) ==
    CASE pu.type_id = 0 ->
            [p EXCEPT !.has_shield = TRUE,
                      !.shield_active_until = current_time + power_up_duration,
                      !.upgrade_message = "SHIELD ACTIVATED!",
                      !.upgrade_time = current_time]
      [] pu.type_id = 1 ->
            [p EXCEPT !.rapid_fire = TRUE,
                      !.rapid_fire_until = current_time + power_up_duration,
                      !.upgrade_message = "RAPID FIRE ACTIVATED!",
                      !.upgrade_time = current_time]
      [] pu.type_id = 2 ->
            [p EXCEPT !.invincible = TRUE,
                      !.invincible_until = current_time + power_up_duration,
                      !.upgrade_message = "INVINCIBILITY ACTIVATED!",
                      !.upgrade_time = current_time]
      [] OTHER ->
            [p EXCEPT !.upgrade_message = "POWER-UP COLLECTED!",
                      !.upgrade_time = current_time]

\* lines 594-619: the effect of collecting power-up pu
collect_power_up(g, pu, current_time) ==
    [g EXCEPT !.player = [apply_power_up(@, pu, current_time)
                            EXCEPT !.score = @ + 5],
              !.power_ups = RemoveId(@, pu.id)]

\* lines 569-627 for one power-up pu of the snapshot; st = [g, psteps]
power_up_step(st, pu, current_time) ==
    LET record(g, pu1, culled, hit, g2) ==
            [g |-> g2,
             psteps |-> Append(st.psteps,
                [id |-> pu.id, type_id |-> pu.type_id,
                 before |-> pu, after |-> pu1,
                 culled |-> culled, hit |-> hit,
                 score0 |-> g.player.score, score1 |-> g2.player.score,
                 player0 |-> g.player, player1 |-> g2.player,
                 present1 |-> pu.id \in Ids(g2.power_ups)])]
        moved(g, pu1) ==
            IF pu1.x < 0 \/ pu1.x > g.width \/ pu1.y < 0 \/ pu1.y > g.height
            THEN record(g, pu1, TRUE, FALSE,
                        [g EXCEPT !.power_ups = RemoveId(@, pu1.id)])
            ELSE IF collides_with(pu1, g.player, 3)
            THEN record(g, pu1, FALSE, TRUE,
                        collect_power_up(g, pu1, current_time))
            ELSE record(g, pu1, FALSE, FALSE,
                        [g EXCEPT !.power_ups = ReplaceId(@, pu1)])
    IN  moved(st.g, PowerUpUpdate(pu))

RECURSIVE power_up_pass(_, _, _)
power_up_pass(st, snapshot, current_time) ==
    IF snapshot = <<>> THEN st
    ELSE power_up_pass(power_up_step(st, Head(snapshot), current_time),
                       Tail(snapshot), current_time)

\* player_collision, with the game going on after a lethal collision
player_collision_no_return(g, e, current_time) ==
    IF collides_with(e, g.player, 0)
    THEN IF g.player.invincible
         THEN [g |-> [g EXCEPT !.enemies = RemoveId(@, e.id)],
               returned |-> FALSE]
         ELSE IF g.player.has_shield
         THEN [g |-> [g EXCEPT !.player.has_shield = FALSE,
                               !.player.upgrade_message = "SHIELD DEACTIVATED!",
                               !.player.upgrade_time = current_time,
                               !.enemies = RemoveId(@, e.id)],
               returned |-> FALSE]
         ELSE [g |-> [g EXCEPT !.game_over = TRUE], returned |-> FALSE]
    ELSE [g |-> g, returned |-> FALSE]

\* player_collision, with the shield tested before the invincibility
player_collision_shield_first(g, e, current_time) ==
    IF collides_with(e, g.player, 0)
    THEN IF g.player.has_shield
         THEN [g |-> [g EXCEPT !.player.has_shield = FALSE,
                               !.player.upgrade_message = "SHIELD DEACTIVATED!",
                               !.player.upgrade_time = current_time,
                               !.enemies = RemoveId(@, e.id)],
               returned |-> FALSE]
         ELSE IF g.player.invincible
         THEN [g |-> [g EXCEPT !.enemies = RemoveId(@, e.id)],
               returned |-> FALSE]
         ELSE [g |-> [g EXCEPT !.game_over = TRUE], returned |-> TRUE]
    ELSE [g |-> g, returned |-> FALSE]

\* player_collision, with the shield left on after it absorbed a hit
player_collision_shield_kept(g, e, current_time) ==
    IF collides_with(e, g.player, 0)
    THEN IF g.player.invincible
         THEN [g |-> [g EXCEPT !.enemies = RemoveId(@, e.id)],
               returned |-> FALSE]
         ELSE IF g.player.has_shield
         THEN [g |-> [g EXCEPT !.player.upgrade_message = "SHIELD DEACTIVATED!",
                               !.player.upgrade_time = current_time,
                               !.enemies = RemoveId(@, e.id)],
               returned |-> FALSE]
         ELSE [g |-> [g EXCEPT !.game_over = TRUE], returned |-> TRUE]
    ELSE [g |-> g, returned |-> FALSE]

\* player_collision, skipped for an enemy a projectile is about to destroy
player_collision_after_projectiles(g, e, current_time) ==
    IF \E i \in 1..Len(g.player.projectiles) :
            collides_with(e, g.player.projectiles[i], 0)
    THEN [g |-> g, returned |-> FALSE]
    ELSE IF collides_with(e, g.player, 0)
    THEN IF g.player.invincible
         THEN [g |-> [g EXCEPT !.enemies = RemoveId(@, e.id)],
               returned |-> FALSE]
         ELSE IF g.player.has_shield
         THEN [g |-> [g EXCEPT !.player.has_shield = FALSE,
                               !.player.upgrade_message = "SHIELD DEACTIVATED!",
                               !.player.upgrade_time = current_time,
                               !.enemies = RemoveId(@, e.id)],
               returned |-> FALSE]
         ELSE [g |-> [g EXCEPT !.game_over = TRUE], returned |-> TRUE]
    ELSE [g |-> g, returned |-> FALSE]

\* player_collision, with update() returning once the shield has absorbed
\* an enemy
player_collision_shield_returns(g, e, current_time) ==
    IF collides_with(e, g.player, 0)
    THEN IF g.player.invincible
         THEN [g |-> [g EXCEPT !.enemies = RemoveId(@, e.id)],
               returned |-> FALSE]
         ELSE IF g.player.has_shield
         THEN [g |-> [g EXCEPT !.player.has_shield = FALSE,
                               !.player.upgrade_message = "SHIELD DEACTIVATED!",
                               !.player.upgrade_time = current_time,
                               !.enemies = RemoveId(@, e.id)],
               returned |-> TRUE]
         ELSE [g |-> [g EXCEPT !.game_over = TRUE], returned |-> TRUE]
    ELSE [g |-> g, returned |-> FALSE]

\* player_collision, comparing the two positions instead of the two spans
player_collision_same_cell(g, e, current_time) ==
    IF e.x = g.player.x /\ e.y = g.player.y
    THEN IF g.player.invincible
         THEN [g |-> [g EXCEPT !.enemies = RemoveId(@, e.id)],
               returned |-> FALSE]
         ELSE IF g.player.has_shield
         THEN [g |-> [g EXCEPT !.player.has_shield = FALSE,
                               !.player.upgrade_message = "SHIELD DEACTIVATED!",
                               !.player.upgrade_time = current_time,
                               !.enemies = RemoveId(@, e.id)],
               returned |-> FALSE]
         ELSE [g |-> [g EXCEPT !.game_over = TRUE], returned |-> TRUE]
    ELSE [g |-> g, returned |-> FALSE]

\* player_collision, with the points of the enemy awarded when an
\* invincible player or a shield destroys it
player_collision_with_points(g, e, current_time) ==
    IF collides_with(e, g.player, 0)
    THEN IF g.player.invincible
         THEN [g |-> [g EXCEPT !.enemies = RemoveId(@, e.id),
                               !.player.score =
                                    @ + get_points(e.enemy_type)],
               returned |-> FALSE]
         ELSE IF g.player.has_shield
         THEN [g |-> [g EXCEPT !.player.has_shield = FALSE,
                               !.player.upgrade_message = "SHIELD DEACTIVATED!",
                               !.player.upgrade_time = current_time,
                               !.enemies = RemoveId(@, e.id),
                               !.player.score =
                                    @ + get_points(e.enemy_type)],
               returned |-> FALSE]
         ELSE [g |-> [g EXCEPT !.game_over = TRUE], returned |-> TRUE]
    ELSE [g |-> g, returned |-> FALSE]

\* lines 641-680: enemy e (already moved) against the player.  Gives the
\* game and whether update() returned.
player_collision(g, e, current_time) ==
    IF collides_with(e, g.player, 0)
    THEN IF g.player.invincible
         THEN [g |-> [g EXCEPT !.enemies = RemoveId(@, e.id)],
               returned |-> FALSE]
         ELSE IF g.player.has_shield
         THEN [g |-> [g EXCEPT !.player.has_shield = FALSE,
                               !.player.upgrade_message = "SHIELD DEACTIVATED!",
                               !.player.upgrade_time = current_time,
                               !.enemies = RemoveId(@, e.id)],
               returned |-> FALSE]
         ELSE [g |-> [g EXCEPT !.game_over = TRUE], returned |-> TRUE]
    ELSE [g |-> g, returned |-> FALSE]

\* first_hit, taking the last projectile that enemy e overlaps
last_hit(e, projectiles) ==
    IF \E i \in 1..Len(projectiles) : collides_with(e, projectiles[i], 0)
    THEN CHOOSE i \in 1..Len(projectiles) :
            /\ collides_with(e, projectiles[i], 0)
            /\ \A j \in (i + 1)..Len(projectiles) :
                    ~collides_with(e, projectiles[j], 0)
    ELSE 0

\* the first projectile of the list that enemy e overlaps (0: none)
first_hit(e, projectiles) ==
    IF \E i \in 1..Len(projectiles) : collides_with(e, projectiles[i], 0)
    THEN CHOOSE i \in 1..Len(projectiles) :
            /\ collides_with(e, projectiles[i], 0)
            /\ \A j \in 1..(i - 1) : ~collides_with(e, projectiles[j], 0)
    ELSE 0

\* lines 686-704: projectile i destroys enemy e
projectile_hit(g, e, i) ==
    [g EXCEPT !.enemies = RemoveId(@, e.id),
              !.player.projectiles = RemoveId(@, g.player.projectiles[i].id),
              !.player.score = @ + get_points(e.enemy_type)]

\* lines 682-708: enemy e (already moved) against the player's projectiles.
\* An enemy no longer in the list is skipped by every matching projectile.
projectile_collisions(g, e) ==
    IF e.id \in Ids(g.enemies) /\ first_hit(e, g.player.projectiles) # 0
    THEN projectile_hit(g, e, first_hit(e, g.player.projectiles))
    ELSE g

\* lines 635-639: the off-screen test of the enemy pass
enemy_off_screen(g, e) ==
    e.x + e.width < 0 \/ e.x > g.width \/ e.y < 0 \/ e.y > g.height

\* lines 630-708 for one enemy e of the snapshot; st = [g, steps, returned];
\* zdraw and hdraw give the random intervals by enemy identity
enemy_step(st, e, current_time, zdraw, hdraw) ==
    LET record(g, e1, g2, returned) ==
            [g |-> g2,
             returned |-> returned,
             steps |-> Append(st.steps,
                [id |-> e.id, enemy_type |-> e.enemy_type,
                 before |-> e, after |-> e1,
                 culled |-> enemy_off_screen(g, e1),
                 hit |-> /\ ~enemy_off_screen(g, e1)
                         /\ collides_with(e1, g.player, 0),
                 shot |-> /\ ~enemy_off_screen(g, e1)
                          /\ first_hit(e1, g.player.projectiles) # 0,
                 invincible |-> g.player.invincible,
                 shield0 |-> g.player.has_shield,
                 shield1 |-> g2.player.has_shield,
                 score0 |-> g.player.score, score1 |-> g2.player.score,
                 projs0 |-> g.player.projectiles,
                 projs1 |-> g2.player.projectiles,
                 eids0 |-> IdSeq(g.enemies),
                 eids1 |-> IdSeq(g2.enemies),
                 present1 |-> e.id \in Ids(g2.enemies),
                 over1 |-> g2.game_over])]
        collided(g, e1, pc1) ==
            IF pc1.returned THEN record(g, e1, pc1.g, TRUE)
            ELSE record(g, e1, projectile_collisions(pc1.g, e1), FALSE)
        moved(g, e1) ==
            IF enemy_off_screen(g, e1)
            THEN record(g, e1, [g EXCEPT !.enemies = RemoveId(@, e1.id)], FALSE)
            ELSE collided(g, e1,
                    player_collision([g EXCEPT !.enemies = ReplaceId(@, e1)],
                                     e1, current_time))
    IN  moved(st.g,
              EnemyUpdate(e, st.g.player.y,
                          IF e.id \in DOMAIN zdraw THEN zdraw[e.id] ELSE 5,
                          IF e.id \in DOMAIN hdraw THEN hdraw[e.id] ELSE 3))

\* enemy_pass, run over the live list instead of a copy: the enemy that
\* follows a removed one is skipped
RECURSIVE enemy_pass_live(_, _, _, _, _)
enemy_pass_live(st, snapshot, current_time, zdraw, hdraw) ==
    LET rest(st1) ==
            IF Head(snapshot).id \notin Ids(st1.g.enemies)
               /\ Tail(snapshot) # <<>>
            THEN Tail(Tail(snapshot))
            ELSE Tail(snapshot)
        next(st1) ==
            enemy_pass_live(st1, rest(st1), current_time, zdraw, hdraw)
    IN  IF snapshot = <<>> \/ st.returned THEN st
        ELSE next(enemy_step(st, Head(snapshot), current_time, zdraw, hdraw))

RECURSIVE enemy_pass(_, _, _, _, _)
enemy_pass(st, snapshot, current_time, zdraw, hdraw) ==
    IF snapshot = <<>> \/ st.returned THEN st
    ELSE enemy_pass(enemy_step(st, Head(snapshot), current_time, zdraw, hdraw),
                    Tail(snapshot), current_time, zdraw, hdraw)

\* StarWarsGame.update(current_time).  Gives the game after the update and
\* the record of its passes: enemy_due and power_up_due, whether the spawn
\* checks fired; level_score, the score check_upgrade saw;
\* psteps, pups1 and score1, the steps of the power-up pass and the
\* power-up list and score when it ended; esnap, the enemy list when the
\* enemy pass started, and steps, its steps; projs1, the projectile list
\* after update_projectiles, and psnap, the power-up list when the power-up
\* pass started.
update(g, current_time, rnd) ==
    LET result(level_score, g2, pp, ep) ==
            [g |-> ep.g,
             projs1 |-> g2.player.projectiles,
             psnap |-> g2.power_ups,
             enemy_due |-> enemy_spawn_due(g, current_time),
             power_up_due |-> power_up_spawn_due(g, current_time),
             level_score |-> level_score,
             psteps |-> pp.psteps,
             pups1 |-> pp.g.power_ups,
             score1 |-> pp.g.player.score,
             esnap |-> pp.g.enemies,
             steps |-> ep.steps]
        enemies(level_score, g2, pp) ==
            result(level_score, g2, pp,
                   enemy_pass([g |-> pp.g, steps |-> <<>>, returned |-> FALSE],
                              pp.g.enemies, current_time,
                              rnd.zdraw, rnd.hdraw))
        power_ups(level_score, g2) ==
            enemies(level_score, g2,
                    power_up_pass([g |-> g2, psteps |-> <<>>], g2.power_ups,
                                  current_time))
        spawned(g1) ==
            power_ups(g1.player.score,
                      [g1 EXCEPT !.player = check_upgrade(
                            update_projectiles(@, g1.width), current_time)])
    IN  spawned(spawn_phase(g, current_time, rnd))

----------------------------------------------------------------------------
(* StarWarsGame.run: one iteration of the game loop                        *)

\* the game before StarWarsGame is constructed
NoGame == [running |-> FALSE]

\* The record of one iteration: g0, the game when it started; key and t,
\* what getch() and time.time() gave; g1, the game when handle_input
\* returned; reset and reset_time, whether
\* reset_game ran and the time it read; updated, whether update ran, and
\* its record; crashed, whether render raised.
NoLog ==
    [g0 |-> NoGame, key |-> "none", t |-> 0, g1 |-> NoGame,
     reset |-> FALSE, reset_time |-> 0, updated |-> FALSE,
     crashed |-> FALSE, enemy_due |-> FALSE, power_up_due |-> FALSE,
     level_score |-> 0, projs1 |-> <<>>, psnap |-> <<>>,
     psteps |-> <<>>, pups1 |-> <<>>,
     score1 |-> 0, esnap |-> <<>>, steps |-> <<>>]

\* lines 884-906 of run(): the resize check, handle_input, update unless
\* the game is over, render.  size = <<rows, columns>> is what getmaxyx()
\* gives, key what getch() gives, current_time what time.time() gives.
\* Gives the game, whether render raised, and the record of the iteration.
run_iteration(g, key, current_time, size, rnd) ==
    LET rendered(g2, lg, crashed) ==
            [g |-> g2, crashed |-> crashed,
             log |-> [lg EXCEPT !.crashed = crashed]]
        updated(g1, u, reset) ==
            rendered(u.g,
                     [g0 |-> g, key |-> key, t |-> current_time,
                      g1 |-> g1, reset |-> reset,
                      reset_time |-> IF reset THEN rnd.reset_time ELSE 0,
                      updated |-> TRUE, crashed |-> FALSE,
                      enemy_due |-> u.enemy_due,
                      power_up_due |-> u.power_up_due,
                      level_score |-> u.level_score,
                      projs1 |-> u.projs1, psnap |-> u.psnap,
                      psteps |-> u.psteps,
                      pups1 |-> u.pups1, score1 |-> u.score1,
                      esnap |-> u.esnap, steps |-> u.steps],
                     render_fails(u.g, current_time))
        input_done(g1, reset) ==
            IF ~g1.game_over
            THEN updated(g1, update(g1, current_time, rnd), reset)
            ELSE rendered(g1,
                          [NoLog EXCEPT !.g0 = g, !.key = key,
                                        !.t = current_time, !.g1 = g1],
                          render_fails(g1, current_time))
        resized(g0) ==
            input_done(handle_input(g0, key, current_time, rnd.reset_time),
                       g0.game_over /\ key = "r")
    IN  resized([g EXCEPT !.height = size[1], !.width = size[2]])

----------------------------------------------------------------------------
(* Bounds of the model and the inputs of one iteration                     *)

\* the terminal: rows and columns getmaxyx() reports when the game starts,
\* and the columns it reports once the window has been made narrow (the
\* number of rows is never changed)
ScreenRows == 6
ScreenCols == 40
NarrowCols == 12
\* what time.time() gives when the program starts (time units)
Epoch == 3000
\* the columns that leave the ship of the first level, at its first
\* column 5, one free column on its right
EdgeCols == 14
\* number of loop iterations explored with free inputs
MaxTicks == 1

\* the keys that act differently during the game
PlayKeys == {"none", "up", "down", "left", "right", "space", "q", "r"}
\* time between two iterations: a paced frame, or a slow iteration (3.1 s)
SlowDt == 93
FrameDts == {frame_time, SlowDt}
\* how much later than the loop's current_time an inner time.time() reads
Lags == {0, 1}

\* What the environment may hand to one iteration: the key, the time since
\* the previous iteration, the clock lag, the columns of the terminal, and
\* the values random may return.
FreeInputs ==
    [keys |-> PlayKeys, dts |-> FrameDts, lags |-> Lags,
     cols |-> {ScreenCols, NarrowCols},
     erows |-> 0..(ScreenRows + 1), prows |-> 0..(ScreenRows + 1),
     ptypes |-> 0..2,
     hunter_rolls |-> BOOLEAN, zigzag_rolls |-> BOOLEAN,
     zints |-> 2..10, hints |-> 3..5]

NoDraw == [i \in {} |-> 0]

SpawnRows(g) == 2..(g.height - 3)

\* the enemies whose next update draws a random interval, and the draws
ZigzagDrawIds(es) == {es[i].id : i \in {j \in 1..Len(es) : ZigzagFlips(es[j])}}
HunterDrawIds(es) == {es[i].id : i \in {j \in 1..Len(es) : HunterRetargets(es[j])}}
ById(es, id) == es[CHOOSE i \in 1..Len(es) : es[i].id = id]
ZigzagDraws(es, zints) ==
    {f \in [ZigzagDrawIds(es) -> zints] :
        \A id \in DOMAIN f :
            f[id] \in ZigzagIntervals(ById(es, id).difficulty_multiplier)}
HunterDraws(es, hints) == [HunterDrawIds(es) -> hints \cap HuntIntervals]

\* the random and clock inputs that matter to an iteration from game g with
\* key and current_time t: a value is drawn only when the code draws it
SpawnInputs(g, key, t, inp) ==
    [reset_time : IF g.game_over /\ key = "r"
                  THEN {t + l : l \in inp.lags} ELSE {t},
     spawn_time : IF ~g.game_over /\ enemy_spawn_due(g, t)
                     /\ Len(g.enemies) < 15
                  THEN {t + l : l \in inp.lags} ELSE {t},
     ey : IF ~g.game_over /\ enemy_spawn_due(g, t) /\ Len(g.enemies) < 15
          THEN SpawnRows(g) \cap inp.erows ELSE {2},
     hunter_roll : IF ~g.game_over /\ enemy_spawn_due(g, t)
                      /\ Len(g.enemies) < 15 /\ g.player.score >= 84
                   THEN inp.hunter_rolls ELSE {FALSE},
     zigzag_roll : IF ~g.game_over /\ enemy_spawn_due(g, t)
                      /\ Len(g.enemies) < 15 /\ g.player.score >= 35
                   THEN inp.zigzag_rolls ELSE {FALSE},
     py : IF ~g.game_over /\ power_up_spawn_due(g, t) /\ Len(g.power_ups) < 2
          THEN SpawnRows(g) \cap inp.prows ELSE {2},
     ptype : IF ~g.game_over /\ power_up_spawn_due(g, t)
                /\ Len(g.power_ups) < 2
             THEN inp.ptypes ELSE {0}]

WithDraws(sp, zdraw, hdraw) ==
    [reset_time |-> sp.reset_time, spawn_time |-> sp.spawn_time,
     ey |-> sp.ey, hunter_roll |-> sp.hunter_roll,
     zigzag_roll |-> sp.zigzag_roll, py |-> sp.py, ptype |-> sp.ptype,
     zdraw |-> zdraw, hdraw |-> hdraw]

\* the enemy list the enemy pass of the iteration will run over
PassEnemiesAfterInput(g1, t, sp) ==
    IF g1.game_over THEN <<>>
    ELSE spawn_phase(g1, t, WithDraws(sp, NoDraw, NoDraw)).enemies

PassEnemies(g, key, t, sp) ==
    PassEnemiesAfterInput(handle_input(g, key, t, sp.reset_time), t, sp)

----------------------------------------------------------------------------
(* Input sequences: what the player and the environment do during the      *)
(* first iterations of a session.  Each element fixes the inputs of one    *)
(* iteration; a random value it names is used only if the code draws it    *)
(* and only if the code can draw it.                                       *)

\* nothing pressed, a paced frame, the terminal at its first size; spawns
\* go to row 2, power-ups are of type 1 (rapid fire)
Calm ==
    [keys |-> {"none"}, dts |-> {frame_time}, lags |-> {0},
     cols |-> {ScreenCols},
     erows |-> {2}, prows |-> {2}, ptypes |-> {1},
     hunter_rolls |-> {FALSE}, zigzag_rolls |-> {FALSE},
     zints |-> {5}, hints |-> {3}]

Press(key, inp) == [inp EXCEPT !.keys = {key}]
Slow(inp) == [inp EXCEPT !.dts = {SlowDt}]
EnemyRow(y, inp) == [inp EXCEPT !.erows = {y}]
PowerUpOf(type, inp) == [inp EXCEPT !.ptypes = {type}]
Rolls(hunter, zigzag, inp) ==
    [inp EXCEPT !.hunter_rolls = {hunter}, !.zigzag_rolls = {zigzag}]

Rep(n, inp) == [i \in 1..n |-> inp]

\* no function is being called on its own
NoCall == [op |-> "none"]

----------------------------------------------------------------------------
(* The program: main()                                                     *)

Init ==
    /\ pc = "title"
    /\ game = NoGame
    /\ now = Epoch
    /\ log = NoLog
    /\ ticks = 0
    /\ script = <<>>
    /\ pressed = "none"
    /\ call = NoCall

\* display_title_screen: Enter starts, q leaves, anything else is ignored
TitleKey ==
    /\ pc = "title"
    /\ \E key \in Keys :
          /\ pc' = IF key = "enter" THEN "instructions"
                   ELSE IF key = "q" THEN "exit"
                   ELSE "title"
          /\ pressed' = key
    /\ UNCHANGED <<game, now, log, ticks, script, call>>

\* display_instructions and the construction of StarWarsGame in main():
\* only Enter is read.  scripts: the input sequences the session may get.
InstructionsKey(scripts) ==
    /\ pc = "instructions"
    /\ \E key \in Keys :
          /\ pressed' = key
          /\ IF key = "enter"
             THEN /\ pc' = "playing"
                  /\ game' = init_game(ScreenRows, ScreenCols, now)
                  /\ script' \in scripts
             ELSE UNCHANGED <<pc, game, script>>
    /\ UNCHANGED <<now, log, ticks, call>>

\* one iteration of the loop of run() with inputs from inp; the loop ends
\* when running is cleared or when render raises
Iteration(inp) ==
    \E key \in inp.keys, dt \in inp.dts, cols \in inp.cols :
      \E sp \in SpawnInputs(game, key, now + dt, inp) :
        \E es \in {PassEnemies([game EXCEPT !.width = cols],
                               key, now + dt, sp)} :
          \E zdraw \in ZigzagDraws(es, inp.zints),
             hdraw \in HunterDraws(es, inp.hints) :
            \E r \in {run_iteration(game, key, now + dt,
                                    <<game.height, cols>>,
                                    WithDraws(sp, zdraw, hdraw))} :
              /\ game' = r.g
              /\ log' = r.log
              /\ now' = now + dt
              /\ pressed' = key
              /\ pc' = IF r.crashed \/ ~r.g.running
                       THEN "exit" ELSE "playing"

\* the loop of run(): the iterations of the input sequence first, then
\* MaxTicks iterations with any inputs
Tick ==
    /\ pc = "playing"
    /\ call' = call
    /\ IF script # <<>>
       THEN /\ Iteration(Head(script))
            /\ script' = Tail(script)
            /\ ticks' = ticks
       ELSE /\ ticks < MaxTicks
            /\ Iteration(FreeInputs)
            /\ script' = script
            /\ ticks' = ticks + 1

NoScript == <<>>

\* Seventeen slow iterations: the first enemy comes in the player's row,
\* the others and the power-ups in the row above.  The enemy and power-up
\* lists fill up to their caps, and the first enemy ends next to the player.
Crowd == <<Slow(EnemyRow(3, Calm))>> \o Rep(16, Slow(Calm))

\* The player fires at every slow iteration at enemies that come in its
\* row: Basic ones, then Zigzag ones, then Hunters.
Shot(hunter, zigzag) ==
    Press("space", Slow(EnemyRow(3, Rolls(hunter, zigzag, Calm))))
Shooter ==
    Rep(10, Shot(FALSE, FALSE)) \o Rep(12, Shot(FALSE, TRUE))
        \o Rep(6, Shot(TRUE, FALSE))
\* ... and then stops firing, until an enemy reaches it
Fallen == Shooter \o Rep(7, Slow(EnemyRow(3, Calm)))

\* Two power-ups of types first and second come 9.3 s apart and are picked
\* up 3 frames apart; an enemy spawned in between reaches the player right
\* after the second pickup.
Guard(first, second) ==
    <<Slow(PowerUpOf(first, Calm))>> \o Rep(2, Slow(Calm))
        \o <<Slow(PowerUpOf(second, Calm))>> \o Rep(6, Calm)
        \o <<Slow(EnemyRow(3, Calm))>> \o Rep(14, Calm)
Invincible == Guard(2, 0)
Shielded == Guard(0, 1)

\* Paced frames: the first enemy passes in the row above, the power-up is
\* picked up, the second enemy comes alone in the player's row.
LoneEarly == <<Calm>> \o Rep(61, EnemyRow(3, Calm))
\* The same after 62 s of slow iterations, the player one cell to the right
LoneLate ==
    Rep(20, Slow(Calm)) \o <<Press("right", Calm)>>
        \o Rep(31, EnemyRow(3, Calm))

\* The player presses left six times from its first column, 5: the sixth
\* press finds it at column 0.
LeftEdge == Rep(6, Press("left", Calm))

\* A shield comes in the first iteration and is picked up in the 20th;
\* the player then presses left five times and stands at column 0.
ShieldedEdge ==
    <<PowerUpOf(0, Calm)>> \o Rep(19, Calm) \o Rep(5, Press("left", Calm))

\* The player holds the space key for eight paced frames, waits for the
\* rapid-fire power-up of the first iteration (picked up in the 20th), and
\* holds the space key again for six frames.
Burst ==
    Rep(8, Press("space", Calm)) \o Rep(12, Calm)
        \o Rep(6, Press("space", Calm))

\* After the firing of Shooter, at level 3, the player moves to the last
\* row it can stand in, or to row 1, fires and quits.
GunnerLow ==
    Shooter \o <<Press("down", Calm), Slow(Press("space", Calm)),
                 Press("q", Calm)>>
GunnerHigh ==
    Shooter \o <<Press("up", Calm), Press("up", Calm),
                 Slow(Press("space", Calm)), Press("q", Calm)>>

\* Two rapid-fire power-ups come 9.3 s apart and are picked up in the
\* 20th and the 23rd iteration, the second while the first is running.
Refreshed == Rep(4, Slow(Calm)) \o Rep(19, Calm) \o <<Press("q", Calm)>>

\* An invincibility and a shield power-up are picked up in the 20th and
\* the 23rd iteration, and the player waits until the first has expired
\* (from the 81st iteration on) and quits before the second does.
Lapsed ==
    <<Slow(PowerUpOf(2, Calm))>> \o Rep(2, Slow(Calm))
        \o <<Slow(PowerUpOf(0, Calm))>> \o Rep(79, Calm)
        \o <<Press("q", Calm)>>

\* Two enemies come one after the other in the row above the player; the
\* shield of the first iteration is picked up in the 20th, when both
\* enemies are over the ship, and the player then moves up into them.
TwoOnShield ==
    <<PowerUpOf(0, Calm), Slow(Calm)>> \o Rep(18, Calm)
        \o <<Press("up", Calm), Press("q", Calm)>>

\* The firing of Shooter up to the iteration that takes the ship to level
\* 1, the 16th, in which the terminal is made so narrow that the ship
\* stands against its right edge.
EdgeUpgrade ==
    SubSeq(Shooter, 1, 15)
        \o <<[Shot(FALSE, TRUE) EXCEPT !.cols = {EdgeCols}]>>

\* The firing of Shooter with the first enemy in the row above the
\* player, where no shot reaches it, and ten more slow shots: the first
\* enemy leaves the screen on the left in the 38th iteration, in which a
\* later enemy is shot.
Sweep ==
    <<Press("space", Slow(EnemyRow(2, Calm)))>> \o Tail(Shooter)
        \o Rep(10, Shot(FALSE, TRUE)) \o <<Press("q", Calm)>>

Scripts ==
    {NoScript, Crowd, Fallen, Invincible, Shielded, LoneEarly, LoneLate,
     LeftEdge, ShieldedEdge, Burst, GunnerLow, GunnerHigh, Refreshed,
     Lapsed, TwoOnShield, EdgeUpgrade, Sweep}

Next ==
    \/ TitleKey
    \/ InstructionsKey(Scripts)
    \/ Tick

Spec == Init /\ [][Next]_vars

----------------------------------------------------------------------------
(* Functions called on their own, on arguments from bounded sets: call     *)
(* holds the name of the function and its arguments, and, once the call is *)
(* done, what it returned.                                                 *)

\* the largest coordinate and the largest margin of the entities compared
MaxCoord == 2
MaxMargin == 3

\* glyphs of the four kinds of entity, of lengths 1, 2, 7 and 8
Glyphs ==
    {PowerUpChar(0), ProjectileChar(1, FALSE), get_appearance(BASIC),
     SHIP_LEVELS(0)}
Entities ==
    {GameObject(1, t[1], t[2], t[3], 1) :
        t \in (-1..MaxCoord) \X (0..MaxCoord) \X Glyphs}

\* a.collides_with(b, m) and b.collides_with(a, m) to be computed
CollideCalls ==
    {[op |-> "collides_with", done |-> FALSE, a |-> t[1], b |-> t[2],
      m |-> t[3], ab |-> FALSE, ba |-> FALSE] :
        t \in Entities \X Entities \X (0..MaxMargin)}

\* the longest time played, in seconds, and the highest score, in steps of
\* 5 points (every award is a multiple of 5), of the difficulties computed
MaxElapsed == 300
MaxScoreSteps == 80

\* get_difficulty_multiplier to be computed time_played after start_time
\* with the given score
DifficultyCalls ==
    {[op |-> "get_difficulty_multiplier", done |-> FALSE,
      time_played |-> t[1] * TimeRate, score |-> 5 * t[2], result |-> 0] :
        t \in (0..MaxElapsed) \X (0..MaxScoreSteps)}

CallDifficulty ==
    /\ call.op = "get_difficulty_multiplier" /\ ~call.done
    /\ call' = [call EXCEPT
                   !.done = TRUE,
                   !.result =
                       get_difficulty_multiplier(
                           [start_time |-> Epoch,
                            player |-> [score |-> call.score]],
                           Epoch + call.time_played)]
    /\ UNCHANGED <<pc, game, now, log, ticks, script, pressed>>

\* the number of updates of one hunter that are followed
MaxUpdates == 3

\* the difficulties a hunter is created with: none, half, full
HunterDifficulties == {0, DUnit \div 2, DUnit}

\* the rows the player can stand in (handle_input keeps y + 1 < height)
PlayerRows == 0..(ScreenRows - 2)

\* a Hunter as spawn_enemy creates it on a terminal of ScreenRows rows and
\* ScreenCols columns, to be updated with the player in row player_y; e0 is
\* the hunter before its last update, n the number of updates made
HunterCalls ==
    {[op |-> "Enemy.update", done |-> FALSE,
      e |-> Enemy(1, ScreenCols - 10, t[1], HUNTER, t[2]),
      e0 |-> Enemy(1, ScreenCols - 10, t[1], HUNTER, t[2]),
      player_y |-> t[3], n |-> 0] :
        t \in (2..(ScreenRows - 3)) \X HunterDifficulties \X PlayerRows}

\* one more update of the hunter; the player has moved by one row at most
\* since the last one, and random.randint(3, 5) is drawn on a re-targeting
CallHunterUpdate ==
    /\ call.op = "Enemy.update" /\ call.n < MaxUpdates
    /\ \E py \in PlayerRows,
          draw \in IF HunterRetargets(call.e) THEN HuntIntervals ELSE {3} :
          /\ call.n = 0 => py = call.player_y
          /\ Abs(py - call.player_y) <= 1
          /\ call' = [call EXCEPT
                         !.done = TRUE,
                         !.e0 = call.e,
                         !.e = EnemyUpdate(call.e, py, 5, draw),
                         !.player_y = py,
                         !.n = call.n + 1]
    /\ UNCHANGED <<pc, game, now, log, ticks, script, pressed>>

\* the number of updates an enemy makes before the projectile is fired
MaxLead == 5

\* the columns a projectile can be created in: the column after the ship's
\* last one (shoot, line 150), the ship standing anywhere on the terminal
ShotCols ==
    {px + Len(SHIP_LEVELS(level)) : px \in 0..ScreenCols, level \in 0..3}
        \cap 0..ScreenCols

\* no projectile has been created
NoShot == <<>>

\* the difficulties the enemy is created with: every tenth, none to full
PassDifficulties == {(k * DUnit) \div 10 : k \in 0..10}

\* an enemy of each type as spawn_enemy creates it in row 2 of a terminal
\* of ScreenRows rows and ScreenCols columns, and the projectile that will
\* be fired at it from its row; e0 and q0 are the two before their last
\* update, n the number of updates of the enemy, seen whether the last
\* collision check between the two found them overlapping, and gone
\* whether one of them left the screen
PassCalls ==
    {[op |-> "pass", done |-> FALSE,
      e |-> Enemy(1, ScreenCols - 10, 2, t[1], t[2]),
      e0 |-> Enemy(1, ScreenCols - 10, 2, t[1], t[2]),
      q |-> NoShot, q0 |-> NoShot,
      fired |-> FALSE, seen |-> FALSE, gone |-> FALSE, n |-> 0] :
        t \in {BASIC, ZIGZAG, HUNTER} \X PassDifficulties}

\* what update does to projectile q and enemy e of call c in one
\* iteration: update_projectiles moves q and drops it beyond the last
\* column (line 563), the enemy pass moves e, with the player in its row,
\* drops it when it is off the screen, and otherwise tests it against q
\* (lines 633-683)
pass_update(c, q) ==
    LET met(e1, q1, q_gone, e_gone) ==
            [c EXCEPT !.done = TRUE,
                      !.e0 = c.e, !.e = e1, !.q0 = q, !.q = q1,
                      !.fired = TRUE, !.n = c.n + 1,
                      !.gone = q_gone \/ e_gone,
                      !.seen = ~q_gone /\ ~e_gone
                                  /\ collides_with(e1, q1, 0)]
        moved(e1, q1) ==
            met(e1, q1, q1.x < 0 \/ q1.x > ScreenCols,
                enemy_off_screen([width |-> ScreenCols,
                                  height |-> ScreenRows], e1))
    IN  moved(EnemyUpdate(c.e, c.e.y, 5, 3), ProjectileUpdate(q))

\* an iteration before the shot: the enemy is updated
CallEnemyUpdate ==
    /\ call.op = "pass" /\ ~call.fired /\ call.n < MaxLead
    /\ call' = [call EXCEPT !.e0 = call.e,
                            !.e = EnemyUpdate(call.e, call.e.y, 5, 3),
                            !.n = call.n + 1]
    /\ UNCHANGED <<pc, game, now, log, ticks, script, pressed>>

\* the iteration of the shot: handle_input creates a normal or a rapid
\* projectile in the enemy's row, left of the enemy, and update runs
CallShot ==
    /\ call.op = "pass" /\ ~call.fired
    /\ \E x \in ShotCols, is_rapid \in BOOLEAN :
          \E q \in {Projectile(2, x, call.e.y, 1, is_rapid)} :
              /\ q.x + q.width <= call.e.x
              /\ call' = pass_update(call, q)
    /\ UNCHANGED <<pc, game, now, log, ticks, script, pressed>>

\* an iteration after the shot, as long as both are in their lists
CallPass ==
    /\ call.op = "pass" /\ call.fired /\ ~call.seen /\ ~call.gone
    /\ call' = pass_update(call, call.q)
    /\ UNCHANGED <<pc, game, now, log, ticks, script, pressed>>

CallCollides ==
    /\ call.op = "collides_with" /\ ~call.done
    /\ call' = [call EXCEPT
                   !.done = TRUE,
                   !.ab = collides_with(call.a, call.b, call.m),
                   !.ba = collides_with(call.b, call.a, call.m)]
    /\ UNCHANGED <<pc, game, now, log, ticks, script, pressed>>

InitCalls ==
    /\ pc = "call"
    /\ game = NoGame
    /\ now = Epoch
    /\ log = NoLog
    /\ ticks = 0
    /\ script = <<>>
    /\ pressed = "none"
    /\ call \in CollideCalls \cup DifficultyCalls \cup HunterCalls
                \cup PassCalls

NextCalls ==
    \/ CallCollides
    \/ CallDifficulty
    \/ CallHunterUpdate
    \/ CallEnemyUpdate
    \/ CallShot
    \/ CallPass

SpecCalls == InitCalls /\ [][NextCalls]_vars

----------------------------------------------------------------------------
(* Properties                                                              *)

\* a StarWarsGame exists
Started == pc \in {"playing", "exit"} /\ game # NoGame
\* ... and log records an iteration of its loop
Ran == Started /\ log.g0 # NoGame
\* the steps of the enemy pass of the recorded iteration
EnemySteps == IF Ran /\ log.updated THEN log.steps ELSE <<>>

SeqRange(q) == {q[i] : i \in 1..Len(q)}
RemoveAt(q, k) == [i \in 1..(Len(q) - 1) |-> IF i < k THEN q[i] ELSE q[i + 1]]
Without(ids, id) == SelectSeq(ids, LAMBDA i : i # id)

\* the projectiles of a step that its enemy, once moved, overlaps
Matching(s) ==
    {i \in 1..Len(s.projs0) : collides_with(s.after, s.projs0[i], 0)}
FirstMatching(s) ==
    CHOOSE i \in Matching(s) : \A j \in Matching(s) : i <= j

\* the kinds of step of the enemy pass: the enemy stays on screen and ...
Unprotected(s) == s.hit /\ ~s.invincible /\ ~s.shield0
InvincibleHit(s) == s.hit /\ s.invincible
ShieldHit(s) == s.hit /\ ~s.invincible /\ s.shield0
Kill(s) == s.shot /\ ~s.hit

\* C1: in every state of a session the enemy list holds at most 15 enemies
\* and the power-up list at most 2 power-ups.
C1_Caps ==
    Started => Len(game.enemies) <= 15 /\ Len(game.power_ups) <= 2

\* C1, the case: an iteration whose two spawn checks fired with both lists
\* at their caps
C1_AtCaps ==
    /\ Ran /\ log.updated
    /\ log.enemy_due /\ Len(log.g0.enemies) = 15 /\ Len(log.esnap) = 15
    /\ log.power_up_due /\ Len(log.g0.power_ups) = 2
    /\ Len(log.pups1) = 2

\* C2: when an enemy overlaps the player that has neither invincibility nor
\* shield, the game is over in that iteration, the enemy pass stops there
\* (the step is the last one), the enemies later in the pass are as they
\* were, the power-ups and the score are as they were at that point, and
\* the colliding enemy is still in the list.
C2_GameOverStopsThePass ==
    \A k \in 1..Len(EnemySteps) :
        Unprotected(EnemySteps[k]) =>
            /\ game.game_over
            /\ k = Len(EnemySteps)
            /\ EnemySteps[k].id \in Ids(game.enemies)
            /\ \A j \in (k + 1)..Len(log.esnap) :
                    log.esnap[j] \in SeqRange(game.enemies)
            /\ game.power_ups = log.pups1
            /\ game.player.score = EnemySteps[k].score0
            /\ game.player.projectiles = EnemySteps[k].projs0

\* C2, the case: a lethal collision with enemies later in the pass and
\* power-ups in the list
C2_LethalWithOthersLeft ==
    /\ EnemySteps # <<>>
    /\ Unprotected(EnemySteps[Len(EnemySteps)])
    /\ Len(log.esnap) >= Len(EnemySteps) + 2
    /\ game.power_ups # <<>>

\* C3: when an enemy overlaps the invincible player, the enemy is removed,
\* the score is unchanged by that enemy, no projectile is consumed (also
\* when the enemy overlaps one), the game is not over, and the shield flag
\* is as it was.
C3_InvincibleCollision ==
    \A k \in 1..Len(EnemySteps) :
        InvincibleHit(EnemySteps[k]) =>
            /\ ~EnemySteps[k].present1
            /\ EnemySteps[k].score1 = EnemySteps[k].score0
            /\ EnemySteps[k].projs1 = EnemySteps[k].projs0
            /\ ~EnemySteps[k].over1
            /\ EnemySteps[k].shield1 = EnemySteps[k].shield0

\* C3, the case: the invincible player also has a shield, and the enemy
\* also overlaps a projectile
C3_InvincibleWithShieldAndShot ==
    \E k \in 1..Len(EnemySteps) :
        /\ InvincibleHit(EnemySteps[k])
        /\ EnemySteps[k].shield0
        /\ EnemySteps[k].shot

\* C4: when an enemy overlaps the player that has a shield and is not
\* invincible, the shield flag is cleared, the enemy is removed, the score
\* is unchanged by that enemy and the game is not over.
C4_ShieldCollision ==
    \A k \in 1..Len(EnemySteps) :
        ShieldHit(EnemySteps[k]) =>
            /\ ~EnemySteps[k].shield1
            /\ ~EnemySteps[k].present1
            /\ EnemySteps[k].score1 = EnemySteps[k].score0
            /\ ~EnemySteps[k].over1

\* C4, the case: a shield absorbs an enemy that also overlaps a projectile
C4_ShieldAbsorbs ==
    \E k \in 1..Len(EnemySteps) :
        ShieldHit(EnemySteps[k]) /\ EnemySteps[k].shot

\* C5: an enemy that overlaps one or more projectiles and does not touch
\* the player is removed, and only that enemy; the first overlapping
\* projectile in list order is removed, and only that one; the score
\* grows by 10 for a Basic, 15 for a Zigzag, 20 for a Hunter.
C5_ProjectileKill ==
    \A k \in 1..Len(EnemySteps) :
        Kill(EnemySteps[k]) =>
            /\ EnemySteps[k].eids1 =
                    Without(EnemySteps[k].eids0, EnemySteps[k].id)
            /\ EnemySteps[k].id \in SeqRange(EnemySteps[k].eids0)
            /\ EnemySteps[k].projs1 =
                    RemoveAt(EnemySteps[k].projs0, FirstMatching(EnemySteps[k]))
            /\ EnemySteps[k].score1 = EnemySteps[k].score0 +
                    (CASE EnemySteps[k].enemy_type = BASIC -> 10
                       [] EnemySteps[k].enemy_type = ZIGZAG -> 15
                       [] EnemySteps[k].enemy_type = HUNTER -> 20)

\* C5, the case: one pass kills a Basic and a Zigzag enemy, each
\* overlapping several projectiles
C5_TwoKillsSeveralProjectiles ==
    /\ \E k \in 1..Len(EnemySteps) :
          /\ Kill(EnemySteps[k])
          /\ EnemySteps[k].enemy_type = BASIC
          /\ Cardinality(Matching(EnemySteps[k])) >= 2
    /\ \E k \in 1..Len(EnemySteps) :
          /\ Kill(EnemySteps[k])
          /\ EnemySteps[k].enemy_type = ZIGZAG
          /\ Cardinality(Matching(EnemySteps[k])) >= 2

\* C6: an enemy that overlaps both the unprotected player and a projectile
\* ends the game: the enemy stays, no projectile is removed and no points
\* are given for it.
C6_PlayerCollisionFirst ==
    \A k \in 1..Len(EnemySteps) :
        (Unprotected(EnemySteps[k]) /\ EnemySteps[k].shot) =>
            /\ EnemySteps[k].over1
            /\ EnemySteps[k].present1
            /\ EnemySteps[k].projs1 = EnemySteps[k].projs0
            /\ EnemySteps[k].score1 = EnemySteps[k].score0

\* C6, the case
C6_LethalAndShot ==
    \E k \in 1..Len(EnemySteps) :
        Unprotected(EnemySteps[k]) /\ EnemySteps[k].shot

\* C7: the player's level is always in 0..3, and an iteration that does
\* not reset the game never lowers it.
C7_LevelMonotonic ==
    /\ Started => game.player.level \in 0..3
    /\ (Ran /\ ~log.reset) => game.player.level >= log.g0.player.level

\* C7, the case: the iteration that takes the ship to its last level
C7_LastUpgrade ==
    Ran /\ ~log.reset /\ log.g0.player.level = 2 /\ game.player.level = 3

LevelOf(score) ==
    IF score >= 300 THEN 3
    ELSE IF score >= 200 THEN 2
    ELSE IF score >= 100 THEN 1
    ELSE 0

\* C8: at the end of every iteration the player's level is the one the
\* score thresholds give: 0 below 100, 1 below 200, 2 below 300, 3 from 300.
C8_LevelMatchesScore ==
    Ran => game.player.level = LevelOf(game.player.score)

\* C9: the iteration that resets a game that was over ends with the game
\* not over, score 0, level 0, no shield, rapid fire or invincibility, no
\* enemy, power-up or projectile, and the start time read by the reset.
C9_ResetIsFresh ==
    (Ran /\ log.reset) =>
        /\ log.g0.game_over
        /\ ~game.game_over
        /\ game.player.score = 0
        /\ game.player.level = 0
        /\ ~game.player.has_shield
        /\ ~game.player.rapid_fire
        /\ ~game.player.invincible
        /\ game.enemies = <<>>
        /\ game.power_ups = <<>>
        /\ game.player.projectiles = <<>>
        /\ game.start_time = log.reset_time
        /\ log.reset_time >= log.t

\* C9, the case: the game reset had a score, a level, enemies, power-ups
\* and projectiles
C9_ResetAfterPlay ==
    /\ Ran /\ log.reset
    /\ log.g0.player.score > 300
    /\ log.g0.player.level = 3
    /\ log.g0.enemies # <<>>
    /\ log.g0.power_ups # <<>>
    /\ log.g0.player.projectiles # <<>>
    /\ log.g0.start_time < log.reset_time

\* the game of C10: the player without shield or invincibility and one
\* Basic enemy, in the player's row, its left edge in the cell right of the
\* player's glyph; no other enemy, no power-up, no projectile
LoneAdjacent(g) ==
    /\ ~g.game_over
    /\ ~g.player.has_shield /\ ~g.player.invincible
    /\ g.power_ups = <<>> /\ g.player.projectiles = <<>>
    /\ Len(g.enemies) = 1
    /\ g.enemies[1].enemy_type = BASIC
    /\ g.enemies[1].y = g.player.y
    /\ g.enemies[1].x = g.player.x + g.player.width

EveryEntity(g, P(_)) ==
    /\ P(g.player)
    /\ \A i \in 1..Len(g.player.projectiles) : P(g.player.projectiles[i])
    /\ \A i \in 1..Len(g.enemies) : P(g.enemies[i])
    /\ \A i \in 1..Len(g.power_ups) : P(g.power_ups[i])

\* C11: a.collides_with(b, m) and b.collides_with(a, m) are equal, for all
\* entities a, b and every margin m >= 0.
C11_CollidesSymmetric ==
    (call.op = "collides_with" /\ call.done) => call.ab = call.ba

\* C11, the case: two entities of different widths at different columns
\* that collide only thanks to the margin
C11_UnequalWidthsCollide ==
    /\ call.op = "collides_with" /\ call.done
    /\ call.ab /\ call.ba
    /\ call.a.width # call.b.width /\ call.a.x # call.b.x
    /\ call.m > 0
    /\ ~collides_with(call.a, call.b, 0)

\* C12: in every state of a session, move(e, 0, 0) leaves the integer
\* position of every entity e unchanged (the player at a screen edge
\* included).
C12_ZeroMoveKeepsPosition ==
    Started =>
        EveryEntity(game, LAMBDA e : /\ move(e, 0, 0).x = e.x
                                     /\ move(e, 0, 0).y = e.y)

\* the floor of a coordinate held in position units
Floor(v) == v \div Unit

\* C13: in every state, for every entity the integer coordinate is the
\* floor of the sub-cell coordinate on both axes (at negative coordinates
\* and for the clamped player too), and the width is the glyph's length.
C13_IntegerIsFloor ==
    Started =>
        EveryEntity(game, LAMBDA e : /\ e.x = Floor(e.float_x)
                                     /\ e.y = Floor(e.float_y)
                                     /\ e.width = Len(e.char))

\* C14: for every elapsed time >= 0 and every score >= 0 the difficulty
\* multiplier lies in [0, 1], and it is exactly 0 for elapsed 0, score 0.
C14_DifficultyInUnitInterval ==
    (call.op = "get_difficulty_multiplier" /\ call.done) =>
        /\ 0 <= call.result /\ call.result <= DUnit
        /\ (call.time_played = 0 /\ call.score = 0) => call.result = 0

\* C14, the case: the hardest game, four minutes in with 300 points or more
C14_HardestGame ==
    /\ call.op = "get_difficulty_multiplier" /\ call.done
    /\ call.time_played >= 240 * TimeRate /\ call.score >= 300
    /\ call.result = DUnit

\* where the program offers to quit: the title screen, the instructions
\* screen, the game once it is over
QuitOffered ==
    pc \in {"title", "instructions"} \/ (pc = "playing" /\ game.game_over)

\* C15: a step that reads the Quit key on the title screen, on the
\* instructions screen or in a game that is over ends the program.
C15_QuitExits ==
    [][(QuitOffered /\ pressed' = "q") => pc' = "exit"]_vars

\* C16: no iteration of a session ends with a draw of render raising, so
\* the loop ends only on quit.
C16_RenderNeverRaises ==
    Ran => (~log.crashed /\ (pc = "exit" => ~game.running))

\* the projectiles the space key of the recorded iteration created
Fired ==
    LET p0 == log.g0.player
        p1 == shoot(p0, log.t, log.g0.lines, log.g0.next_id)
    IN  SubSeq(p1.projectiles, Len(p0.projectiles) + 1, Len(p1.projectiles))

\* C17: at level 1, a shot that succeeds creates two projectiles, one
\* travelling forward and one travelling backward.
C17_LevelOneFiresBothWays ==
    (/\ Ran /\ ~log.g0.game_over /\ log.key = "space"
     /\ log.g0.player.level = 1 /\ Fired # <<>>) =>
        /\ Len(Fired) = 2
        /\ {Fired[i].direction : i \in 1..Len(Fired)} = {1, -1}

\* what C18 says stays the same while the game is over: the score, the
\* level, the power-up flags, the player's position, the entity lists
Frozen(g) ==
    <<g.player.score, g.player.level, g.player.has_shield,
      g.player.rapid_fire, g.player.invincible, g.player.x, g.player.y,
      g.player.projectiles, g.enemies, g.power_ups>>

\* the recorded iteration set game_over / ran on a game that was over
EnteredGameOver == Ran /\ ~log.g0.game_over /\ game.game_over
WasGameOver == Ran /\ log.g0.game_over

\* C18: game_over is set only by an unprotected collision of the enemy
\* pass; an iteration on a game that is over ends the game-over state only
\* on r (a fresh game), ends the loop only on q or ESC, and with any other
\* key or none leaves score, level, flags, position and lists as they were.
C18_GameOverIsAbsorbing ==
    /\ EnteredGameOver =>
          /\ log.updated /\ log.steps # <<>>
          /\ Unprotected(log.steps[Len(log.steps)])
    /\ WasGameOver =>
          /\ ~game.game_over =>
                (log.key = "r" /\ log.reset /\ game.player.score = 0)
          /\ pc = "exit" => log.key \in {"q", "esc"}
          /\ log.key \notin {"r", "q", "esc"} =>
                (game.game_over /\ Frozen(game) = Frozen(log.g0))

\* C19: whenever an update of a Zigzag enemy brings the drift held in its
\* vertical accumulator to a whole cell or more, the enemy's row changes in
\* that update by that whole-cell amount (in the direction of the drift).
C19_ZigzagDriftMovesRow ==
    \A k \in 1..Len(EnemySteps) :
        LET s == EnemySteps[k]
        IN  (/\ s.enemy_type = ZIGZAG
             /\ Abs(s.after.zigzag_accumulator) >= Unit) =>
                s.after.y - s.before.y = Trunc(s.after.zigzag_accumulator)

\* the distance, in position units, of hunter e from the target row of h
TargetDistance(e, h) == Abs(e.float_y - h.target_y * Unit)

\* C20: in every update of a Hunter that starts more than 0.2 rows from
\* the target row, a change of row is toward the target and the distance to
\* the target row does not grow; after every update the accumulator is
\* less than one cell in magnitude.
C20_HunterClosesIn ==
    (call.op = "Enemy.update" /\ call.done) =>
        /\ 10 * TargetDistance(call.e0, call.e) > 2 * Unit =>
              /\ (call.e.y - call.e0.y) * (call.e.target_y - call.e0.y) >= 0
              /\ TargetDistance(call.e, call.e) <=
                     TargetDistance(call.e0, call.e)
        /\ Abs(call.e.hunter_accumulator) < Unit

\* the recorded iteration read the space key during play
ShootAttempt == Ran /\ ~log.g0.game_over /\ log.key = "space"
\* ... and the shot was made: projectiles were added
ShotMade ==
    /\ ShootAttempt
    /\ Len(log.g1.player.projectiles) > Len(log.g0.player.projectiles)
\* the cooldown the flags of player p call for: 0.1 s or 0.3 s
CooldownOf(p) == IF p.rapid_fire THEN TimeRate \div 10 ELSE (3 * TimeRate) \div 10

\* C21: the last-shot time and the projectile list change in handle_input
\* only by a shot made more than the cooldown (0.1 s with rapid fire, 0.3 s
\* without) after the last shot, which sets the last-shot time to the time
\* of the iteration; an attempt inside the cooldown leaves both as they
\* were; update leaves the last-shot time alone.  So two shots of a session
\* are always more than the cooldown of the later one apart.
C21_ShotsRespectCooldown ==
    (Ran /\ ~log.reset) =>
        /\ (\/ log.g1.player.last_shot_time # log.g0.player.last_shot_time
            \/ log.g1.player.projectiles # log.g0.player.projectiles) =>
                /\ ShotMade
                /\ log.t - log.g0.player.last_shot_time
                        > CooldownOf(log.g0.player)
                /\ log.g1.player.last_shot_time = log.t
        /\ (/\ ShootAttempt
            /\ log.t - log.g0.player.last_shot_time
                    <= CooldownOf(log.g0.player)) =>
                /\ log.g1.player.projectiles = log.g0.player.projectiles
                /\ log.g1.player.last_shot_time =
                        log.g0.player.last_shot_time
        /\ game.player.last_shot_time = log.g1.player.last_shot_time

\* C21, the case: a second shot with rapid fire, less than 0.3 s after the
\* first one
C21_RapidSecondShot ==
    /\ ShotMade
    /\ log.g0.player.rapid_fire
    /\ log.g0.player.last_shot_time > 0
    /\ log.t - log.g0.player.last_shot_time <= (3 * TimeRate) \div 10

\* the projectiles the shot of the recorded iteration added
NewShots ==
    SubSeq(log.g1.player.projectiles, Len(log.g0.player.projectiles) + 1,
           Len(log.g1.player.projectiles))
\* the rows, other than the player's, a shot of player p goes to on a grid
\* of the given number of rows
SideRows(p, rows) ==
    IF p.level >= 2
    THEN {y \in {p.y - 1} : p.y > 1} \cup {y \in {p.y + 1} : p.y < rows - 2}
    ELSE {}

PowerUpSteps == IF Ran /\ log.updated THEN log.psteps ELSE <<>>
\* the three power-up flags of player p with their expiry times, by type
Flags(p) ==
    <<<<p.has_shield, p.shield_active_until>>,
      <<p.rapid_fire, p.rapid_fire_until>>,
      <<p.invincible, p.invincible_until>>>>
\* the power-up of step s, moved and still on screen, overlaps the player
\* with margin 3
PickedUp(s) == ~s.culled /\ collides_with(s.after, s.player0, 3)

\* C23: a power-up that overlaps the player with margin 3 is removed in
\* that iteration, the score grows by exactly 5, the flag of its type is
\* set with expiry now + 4.0 s, and the two other flags and expiries stay
\* as they were.
C23_PickUp ==
    \A k \in 1..Len(PowerUpSteps) :
        PickedUp(PowerUpSteps[k]) =>
            /\ ~PowerUpSteps[k].present1
            /\ PowerUpSteps[k].score1 = PowerUpSteps[k].score0 + 5
            /\ PowerUpSteps[k].type_id \in 0..2
            /\ \A type \in 0..2 :
                    Flags(PowerUpSteps[k].player1)[type + 1] =
                        IF type = PowerUpSteps[k].type_id
                        THEN <<TRUE, log.t + 4 * TimeRate>>
                        ELSE Flags(PowerUpSteps[k].player0)[type + 1]

\* C23, the case: a pick-up of a type whose flag is already set, with an
\* expiry still to come
C23_PickUpWhileActive ==
    \E k \in 1..Len(PowerUpSteps) :
        /\ PickedUp(PowerUpSteps[k])
        /\ Flags(PowerUpSteps[k].player0)[PowerUpSteps[k].type_id + 1][1]
        /\ Flags(PowerUpSteps[k].player0)[PowerUpSteps[k].type_id + 1][2]
                > log.t

\* a power-up of the given type was picked up in the recorded iteration
Picked(type) ==
    \E k \in 1..Len(PowerUpSteps) :
        PickedUp(PowerUpSteps[k]) /\ PowerUpSteps[k].type_id = type
\* the flags and expiries, by type, when the enemy pass of the recorded
\* iteration started (the pass changes none but the shield flag)
FlagsAtPass ==
    [Flags(game.player) EXCEPT
        ![1][1] = IF log.steps # <<>> THEN log.steps[1].shield0 ELSE @]
\* the flag of the given type expired in the recorded iteration
Expired(type) ==
    /\ Flags(log.g1.player)[type + 1][1]
    /\ log.t > Flags(log.g1.player)[type + 1][2]

\* C24: when the enemy pass of an iteration at time now starts, each of
\* the three flags is set exactly when it was picked up in that iteration
\* or was set before it with now not later than its expiry, whatever the
\* other two flags; a set flag has an expiry not earlier than now, and an
\* expiry changes only by a pick-up (which makes it now + 4.0 s); during
\* the pass invincibility stays as it is and the shield is never set.
C24_FlagsExpire ==
    (Ran /\ log.updated) =>
        /\ \A type \in 0..2 :
              /\ FlagsAtPass[type + 1][1] =
                    \/ Picked(type)
                    \/ /\ Flags(log.g1.player)[type + 1][1]
                       /\ log.t <= Flags(log.g1.player)[type + 1][2]
              /\ FlagsAtPass[type + 1][1] =>
                    /\ log.t <= FlagsAtPass[type + 1][2]
                    /\ FlagsAtPass[type + 1][2] <= log.t + 4 * TimeRate
              /\ ~Picked(type) =>
                    FlagsAtPass[type + 1][2] =
                        Flags(log.g1.player)[type + 1][2]
        /\ \A k \in 1..Len(log.steps) :
              /\ log.steps[k].invincible = FlagsAtPass[3][1]
              /\ log.steps[k].shield0 => FlagsAtPass[1][1]

\* C24, the case: one flag expires in an iteration while another, picked
\* up later, stays set
C24_OneExpiresOneStays ==
    /\ Ran /\ log.updated
    /\ \E type, other \in 0..2 :
          /\ Expired(type)
          /\ ~FlagsAtPass[type + 1][1]
          /\ Flags(log.g1.player)[other + 1][1]
          /\ FlagsAtPass[other + 1][1]

\* C25: when the shield absorbs an enemy, that enemy is removed and the
\* shield flag cleared, the enemy pass goes on with the enemies after it,
\* and the next of them to overlap the player (not invincible) ends the
\* game in that same iteration: it is the last step of the pass and stays
\* in the list.
C25_ShieldAbsorbsOne ==
    \A j \in 1..Len(EnemySteps) :
        ShieldHit(EnemySteps[j]) =>
            /\ ~EnemySteps[j].present1
            /\ ~EnemySteps[j].shield1
            /\ j < Len(log.esnap) => j < Len(EnemySteps)
            /\ \A k \in (j + 1)..Len(EnemySteps) :
                    EnemySteps[k].hit =>
                        /\ Unprotected(EnemySteps[k])
                        /\ EnemySteps[k].over1
                        /\ EnemySteps[k].present1
                        /\ k = Len(EnemySteps)
                        /\ game.game_over

\* C25, the case: two enemies overlap the player that has a shield in the
\* same iteration
C25_TwoEnemiesOneShield ==
    \E j \in 1..Len(EnemySteps) :
        /\ ShieldHit(EnemySteps[j])
        /\ \E k \in (j + 1)..Len(EnemySteps) : EnemySteps[k].hit

\* a step of a pass applies an outcome: a pick-up; a collision of an enemy
\* with the player or with a projectile
PickUpAt(k) == PickedUp(log.psteps[k])
OutcomeAt(k) == log.steps[k].hit \/ log.steps[k].shot

\* C26: in every iteration in which update runs, all power-ups and all
\* enemies have been advanced before the first pick-up, enemy destruction
\* or game-over is applied: a pick-up is made only at the last step of the
\* power-up pass with no enemy left to advance, a collision only at the
\* step of the last enemy of the pass; when the game ends, every enemy of
\* the pass has been advanced.
C26_AllMovedBeforeOutcomes ==
    (Ran /\ log.updated) =>
        /\ \A k \in 1..Len(log.psteps) :
                PickUpAt(k) => (k = Len(log.psnap) /\ log.esnap = <<>>)
        /\ \A k \in 1..Len(log.steps) :
                OutcomeAt(k) => k = Len(log.esnap)
        /\ game.game_over => Len(log.steps) = Len(log.esnap)

\* step s of a pass is one advance of entity e: e as it was, moved by its
\* speed along the row
AdvancesOnce(s, e) ==
    /\ s.before = e
    /\ s.after.float_x = e.float_x + e.speed
    /\ s.after.x = Trunc(e.float_x + e.speed)
\* projectile q, advanced once, is within the columns update_projectiles
\* keeps
StaysOnScreen(q) ==
    /\ Trunc(q.float_x + q.speed) >= 0
    /\ Trunc(q.float_x + q.speed) <= log.g1.width

\* C27: in an iteration whose update does not end the game, the enemy pass
\* has one step for each enemy of the list it started with, in order, and
\* so has the power-up pass for the power-ups; each step advances its
\* entity once; the projectile list after update_projectiles holds, in
\* order, each projectile the player had, advanced once, except those that
\* left the screen.
C27_EveryEntityAdvancedOnce ==
    (Ran /\ log.updated /\ ~game.game_over) =>
        /\ Len(log.steps) = Len(log.esnap)
        /\ \A k \in 1..Len(log.steps) :
                AdvancesOnce(log.steps[k], log.esnap[k])
        /\ Len(log.psteps) = Len(log.psnap)
        /\ \A k \in 1..Len(log.psteps) :
                AdvancesOnce(log.psteps[k], log.psnap[k])
        /\ IdSeq(log.projs1) =
                IdSeq(SelectSeq(log.g1.player.projectiles, StaysOnScreen))
        /\ \A k \in 1..Len(log.projs1) :
                log.projs1[k].float_x =
                    ById(log.g1.player.projectiles, log.projs1[k].id).float_x
                        + log.projs1[k].speed

\* C27, the case: an enemy pass that removes two enemies, each with enemies
\* after it in the list, in an iteration that also removes a projectile
\* that left the screen
C27_RemovalsDuringThePasses ==
    /\ Ran /\ log.updated /\ ~game.game_over
    /\ Cardinality({k \in 1..(Len(log.steps) - 1) :
                        ~log.steps[k].present1}) >= 2
    /\ Len(log.projs1) < Len(log.g1.player.projectiles)

\* the ship's glyph lies within the grid of game g
ShipOnScreen(g) ==
    /\ 0 <= g.player.x /\ g.player.x + g.player.width <= g.width
    /\ 0 <= g.player.y /\ g.player.y < g.height

\* C28: at the end of every iteration in which update ran (the state that
\* is rendered), on a grid wider than the ship, the ship's glyph lies
\* fully within the grid.
C28_ShipStaysOnScreen ==
    (Ran /\ log.updated /\ game.width > game.player.width) =>
        ShipOnScreen(game)

\* the arrow keys, and the cells each moves the ship by (columns, rows)
ArrowKeys == {"up", "down", "left", "right"}
ArrowDx(key) == IF key = "left" THEN -1 ELSE IF key = "right" THEN 1 ELSE 0
ArrowDy(key) == IF key = "up" THEN -1 ELSE IF key = "down" THEN 1 ELSE 0

\* ship p, moved by (dx, dy) cells, is at a place the bounds check of
\* handle_input leaves alone on the grid of game g
ShipFits(p, dx, dy, g) ==
    /\ 0 <= p.x + dx /\ p.x + dx + p.width < g.width
    /\ 0 <= p.y + dy /\ p.y + dy + p.height < g.height

\* C29: when the ship stands where the bounds check leaves it and has a
\* free cell in the direction of the arrow key that is pressed, the press
\* moves its integer position by exactly one cell in that direction.
C29_ArrowMovesOneCell ==
    (/\ Ran /\ ~log.g0.game_over /\ log.key \in ArrowKeys
     /\ ShipFits(log.g0.player, 0, 0, log.g1)
     /\ ShipFits(log.g0.player, ArrowDx(log.key), ArrowDy(log.key), log.g1))
        => /\ log.g1.player.x = log.g0.player.x + ArrowDx(log.key)
           /\ log.g1.player.y = log.g0.player.y + ArrowDy(log.key)

\* C30: a projectile fired from left of an enemy in the enemy's row stays
\* left of it until a collision check finds the two overlapping: at no
\* speed and for no glyph width does the enemy get past the projectile
\* between two iterations without the check in between seeing them overlap.
C30_NoPassingThrough ==
    (call.op = "pass" /\ call.fired /\ ~call.seen) =>
        call.q.x + call.q.width <= call.e.x

\* C30, the case: a rapid projectile and a Hunter at full difficulty, the
\* narrowest pair, stand next to each other and close in by six cells (two
\* and four) in one iteration; the check sees the projectile in the
\* enemy's last cell
C30_FastestClosing ==
    /\ call.op = "pass" /\ call.seen
    /\ call.q.is_rapid /\ call.e.enemy_type = HUNTER
    /\ call.q0.x + call.q0.width = call.e0.x
    /\ call.q.x = call.q0.x + 2 /\ call.e.x = call.e0.x - 4
    /\ call.q.x = call.e.x + call.e.width - 1

\* the scores of the recorded iteration in the order the code had them:
\* before the iteration, when handle_input returned, and before and after
\* each step of the power-up pass and of the enemy pass
RECURSIVE StepScores(_)
StepScores(steps) ==
    IF steps = <<>> THEN <<>>
    ELSE <<Head(steps).score0, Head(steps).score1>>
            \o StepScores(Tail(steps))
ScoreTrail ==
    <<log.g0.player.score, log.g1.player.score>>
        \o StepScores(PowerUpSteps) \o StepScores(EnemySteps)
        \o <<game.player.score>>

\* what a step of the power-up pass and a step of the enemy pass add
PickUpGain(s) == IF PickedUp(s) THEN 5 ELSE 0
KillGain(s) == IF Kill(s) THEN get_points(s.enemy_type) ELSE 0

\* C31: the score is a non-negative integer; in an iteration that does not
\* start a new session it never decreases, and it changes only in the
\* steps of the two passes: by exactly 5 in a step that picks a power-up
\* up, by exactly 10, 15 or 20 in a step whose enemy a projectile destroys,
\* and not at all in any other step (culling, shield hit, invincible
\* contact, game over) nor between two steps.
C31_ScoreSteps ==
    Ran =>
        /\ game.player.score \in Nat
        /\ ~log.reset =>
              /\ \A k \in 1..(Len(ScoreTrail) - 1) :
                    ScoreTrail[k] <= ScoreTrail[k + 1]
              /\ log.g1.player.score = log.g0.player.score
              /\ \A k \in 1..Len(PowerUpSteps) :
                    /\ PowerUpSteps[k].score0 =
                            IF k = 1 THEN log.g1.player.score
                            ELSE PowerUpSteps[k - 1].score1
                    /\ PowerUpSteps[k].score1 =
                            PowerUpSteps[k].score0
                                + PickUpGain(PowerUpSteps[k])
              /\ \A k \in 1..Len(EnemySteps) :
                    /\ EnemySteps[k].score0 =
                            IF k = 1 THEN ScoreTrail[2 + 2 * Len(PowerUpSteps)]
                            ELSE EnemySteps[k - 1].score1
                    /\ EnemySteps[k].score1 =
                            EnemySteps[k].score0 + KillGain(EnemySteps[k])
                    /\ KillGain(EnemySteps[k]) \in {0, 10, 15, 20}
              /\ game.player.score =
                    ScoreTrail[Len(ScoreTrail) - 1]

\* C31, the case: an enemy pass in which one enemy leaves the screen, the
\* score staying as it was, and a later enemy is destroyed by a
\* projectile, the score growing by that enemy's points
C31_CullThenKill ==
    /\ Ran /\ ~log.reset
    /\ \E j \in 1..Len(EnemySteps), k \in 1..Len(EnemySteps) :
          /\ j < k
          /\ EnemySteps[j].culled
          /\ EnemySteps[j].score1 = EnemySteps[j].score0
          /\ Kill(EnemySteps[k])
          /\ EnemySteps[k].score1 > EnemySteps[k].score0
    /\ game.player.score > log.g0.player.score

\* the longest delay of a first spawn that is looked for, in time units
\* (10 s)
MaxSpawnDelay == 300

\* the time from the start of session g, not yet updated, to the first
\* moment at which the enemy spawn check of update() fires, and the same
\* for the power-up spawn check (MaxSpawnDelay + 1: no such moment within
\* MaxSpawnDelay)
FirstEnemySpawn(g) ==
    LET due == {d \in 0..MaxSpawnDelay :
                    enemy_spawn_due(g, g.start_time + d)}
    IN  IF due = {} THEN MaxSpawnDelay + 1
        ELSE CHOOSE d \in due : \A d2 \in due : d <= d2
FirstPowerUpSpawn(g) ==
    LET due == {d \in 0..MaxSpawnDelay :
                    power_up_spawn_due(g, g.start_time + d)}
    IN  IF due = {} THEN MaxSpawnDelay + 1
        ELSE CHOOSE d \in due : \A d2 \in due : d <= d2

\* session g has the player, the lists, the flags and the first spawn
\* delays of session fresh
SameForGameplay(g, fresh) ==
    /\ g.player = fresh.player
    /\ g.enemies = fresh.enemies /\ g.power_ups = fresh.power_ups
    /\ g.game_over = fresh.game_over /\ g.running = fresh.running
    /\ g.start_time = fresh.start_time
    /\ FirstEnemySpawn(g) = FirstEnemySpawn(fresh)
    /\ FirstPowerUpSpawn(g) = FirstPowerUpSpawn(fresh)

\* C32: the session reset_game produces is, for gameplay, the session
\* init_game produces on the same terminal at the same time: same player,
\* no enemies and no power-ups, and the same delays from the start of the
\* session to its first enemy spawn and to its first power-up spawn.
C32_ResetAsStartUp ==
    (Ran /\ log.reset) =>
        SameForGameplay(log.g1,
                        init_game(log.g1.height, log.g1.width,
                                  log.reset_time))

====
